---- MODULE Spec2Model ----
(***************************************************************************)
(* Model of OpenXrProgram (app/src/main/src/openxr_program.cpp): the       *)
(* per-tick frame compositor (RenderFrame / RenderLayer) and the input     *)
(* relay (PollActions), together with the remote frame source they drive   *)
(* through SetTrackingState / SetSenserPoseState / LatchFrame /            *)
(* ReleaseFrame.                                                           *)
(*                                                                         *)
(* RenderFrame is modelled call by call: pc is the position of the render  *)
(* thread inside RenderFrame/RenderLayer and every runtime or remote call  *)
(* is one step.  PollActions is one step.  trace is the sequence of calls  *)
(* the current tick has made so far.  A runtime call wrapped in            *)
(* CHECK_XRCMD / CHECK_XRRESULT can fail: the failure is thrown out of the *)
(* handler (pc = "thrown", thrown names the call) and nothing runs after.  *)
(*                                                                         *)
(* Six specifications share the actions and differ in the inputs they      *)
(* enumerate: Spec (view poses and latch outcomes), HandSpec (hand aim     *)
(* pose queries), HeadSpec (head pose queries), ViewSpec (fields of view   *)
(* and graphics-state indices), InputSpec (button samples) and ScalarSpec  *)
(* (analog samples).  RenderLayer reads no state written by                *)
(* PollActions and the pose stamping reads no hand pose, so each part is   *)
(* explored in full while the others are held to one input.  SessionSpec   *)
(* explores PollEvents over every event the runtime can queue, its while   *)
(* loop one event per step.  LoopSpec calls the handlers in the order of   *)
(* the host loop: PollEvents, then PollActions and RenderFrame while the   *)
(* session is running.                                                     *)
(*                                                                         *)
(* Of PollActions the controls that reach the tracking snapshot, the       *)
(* haptic output or the return value are modelled: the buttons home, back, *)
(* TriggerTouch, A, B, X, Y, and the analog actions grab, trigger,         *)
(* joystick and Grip, with values in hundredths.  m_input.handScale,       *)
(* m_input.handXYPos and the controls that are only logged are left out.   *)
(***************************************************************************)
EXTENDS Integers, Sequences, FiniteSets, TLC

\* ------------------------------------------------------------------ bounds
\* Number of RenderFrame calls explored.
MaxTicks == 2
\* Largest number of controls the runtime reports active in one sync.
MaxActive == 1
\* Capacity of the runtime's event queue.
MaxQueue == 2

\* --------------------------------------------------------------- constants
Side_LEFT == 0
Side_RIGHT == 1
Side_COUNT == 2

Eyes == 0 .. (Side_COUNT - 1)
Hands == {Side_LEFT, Side_RIGHT}

\* XR_VIEW_STATE_*_VALID_BIT / XR_SPACE_LOCATION_*_VALID_BIT, as a set of bits.
POSITION_VALID == "POSITION_VALID_BIT"
ORIENTATION_VALID == "ORIENTATION_VALID_BIT"
ValidityFlags == SUBSET {POSITION_VALID, ORIENTATION_VALID}

Positions == {"p0", "p1"}
Orientations == {"q0", "q1"}
Pose == [position : Positions, orientation : Orientations]
\* Value of a pose variable that no code has assigned yet.
NoPose == [position |-> "unset", orientation |-> "unset"]

\* cxrFramesLatched.poseMatrix: the rotation and translation the remote
\* renderer used.
PoseMatrix == [rotation : Orientations, translation : Positions]
ZeroMatrix == [rotation |-> "zero", translation |-> "zero"]

\* CloudXRClient::cxrToQuaternion / cxrGetTranslation: the orientation and the
\* position carried by a pose matrix.
cxrToQuaternion(m) == m.rotation
cxrGetTranslation(m) == m.translation

\* cxrFramesLatched framesLatched{}: the zero-initialised frame record.
ZeroFrame == [poseID |-> 0, poseMatrix |-> ZeroMatrix, frames |-> [i \in Eyes |-> 0]]
\* Texture handle of eye i of the frame with the given id (never 0).
Texture(id, i) == Side_COUNT * id + i
LatchedFrameRecord(id, m) ==
    [poseID |-> id, poseMatrix |-> m, frames |-> [i \in Eyes |-> Texture(id, i)]]

\* -------------------------------------------------------------- variables
VARIABLES
    pc,                    \* position of the render thread
    m_cloudxr,             \* TRUE once the CloudXRClient exists
    shouldRender,          \* frameState.shouldRender of this tick
    m_views,               \* eye -> locally predicted view pose
    mGsIndex,              \* int mGsIndex, the graphics-state index
    viewStateFlags,        \* viewState.viewStateFlags of this tick
    handLoc,               \* hand -> result of the aim-pose xrLocateSpace
    prevAim,               \* hand -> its valid aim pose of the previous
                           \* rendered tick, NoPose if that query was not valid
    handPose,              \* std::vector<XrPosef> handPose
    headLoc,               \* result of the head xrLocateSpace
    goodHead,              \* pose of the last head query that had both
                           \* validity bits, "unset" before the first
    cxrSensed,             \* arguments of the last SetSenserPoseState
    framevaild,            \* bool framevaild
    framesLatched,         \* cxrFramesLatched framesLatched
    pose,                  \* XrPosef pose[Side::COUNT]
    projectionLayerViews,  \* sequence of projection views (eye i at i + 1)
    eye,                   \* loop index i of the swapchain loop
    waitInfo,              \* XrSwapchainImageWaitInfo of the last
                           \* xrWaitSwapchainImage of the tick
    drawn,                 \* eye -> texture handed to RenderView in the tick
    layers,                \* layers.size()
    frameEndInfo,          \* the last xrEndFrame submission
    cxrHeld,               \* ids of frames latched and not yet released
    cxrLatched,            \* number of LatchFrame calls that returned a frame
    releaseLog,            \* ids passed to ReleaseFrame, in call order
    ticks,                 \* RenderFrame calls started
    endFrames,             \* xrEndFrame calls made
    trace,                 \* calls made by the current tick, in order
    thrown,                \* the runtime call whose failure was thrown, or "none"
    actionState,           \* control -> the runtime's value at the last xrSyncActions
    sample,                \* hand -> control -> action state read by PollActions
    trackingState,         \* cxrVRTrackingState trackingState of the last PollActions
    scalarSample,          \* hand -> float or vector action -> state read by
                           \* PollActions
    haptics,               \* hands the last PollActions applied
                           \* xrApplyHapticFeedback to
    forwarded,             \* SetTrackingState calls made by the last PollActions
    lapsed,                \* scalars of a hand that were not zero in the
                           \* snapshot forwarded by the poll before the last
                           \* and whose action the last poll read inactive
    ret,                   \* value the last PollActions returned
    cxrTracking,           \* argument of the last SetTrackingState, if any, and
                           \* the number of RenderFrame calls started before it
    heldAfterPress,        \* controls pressed in the poll before the last one
                           \* and held unchanged in the last one
    m_sessionState,        \* XrSessionState m_sessionState
    m_sessionRunning,      \* bool m_sessionRunning
    exitRenderLoop,        \* *exitRenderLoop of the current or last PollEvents
    requestRestart,        \* *requestRestart of the current or last PollEvents
    pending,               \* number of events in the runtime's event queue
    unread,                \* events queued when PollEvents was called and
                           \* not read by it so far
    event,                 \* the event TryReadNextEvent returned last
    called,                \* session call made while handling that event
    exits,                 \* the last two exiting, loss-pending or
                           \* instance-loss events the current or last
                           \* PollEvents handled, the latest last
    exitBefore,            \* exitRenderLoop as the PollEvents before the
                           \* current or last one left it
    lifecycle,             \* the last two Ready and Stopping events for the
                           \* owned session that were handled, the latest
                           \* last
    last                   \* the handler that returned last

frameVars ==
    <<shouldRender, m_views, mGsIndex, viewStateFlags, handLoc, prevAim, handPose,
      headLoc, goodHead, cxrSensed, framevaild, framesLatched, pose,
      projectionLayerViews, eye, waitInfo, drawn, layers, frameEndInfo, cxrHeld, cxrLatched,
      releaseLog, ticks, endFrames>>

renderVars == <<pc, trace, thrown, frameVars>>

inputVars ==
    <<actionState, sample, scalarSample, haptics, forwarded, lapsed, trackingState, ret,
      cxrTracking, heldAfterPress>>

eventVars ==
    <<m_sessionState, m_sessionRunning, exitRenderLoop, requestRestart,
      pending, unread, event, called, exits, exitBefore, lifecycle>>

sessionVars == <<eventVars, last>>

vars == <<m_cloudxr, renderVars, inputVars, sessionVars>>

\* ------------------------------------------------------------------ inputs
\* What xrLocateViews may report: any pose per eye, any validity bits.
\* XrView.fov as xrLocateViews fills it in; each eye has a field of view of
\* its own unless said otherwise.
Fovs == {"fovL", "fovR"}
NoFov == "unset"
EyeFov(i) == IF i = Side_LEFT THEN "fovL" ELSE "fovR"
View(p, f) == [pose |-> p, fov |-> f]
ViewInputs == {[i \in Eyes |-> View(p[i], EyeFov(i))] : p \in [Eyes -> Pose]}
ViewFlagInputs == ValidityFlags
OneViewInput ==
    {[i \in Eyes |-> View([position |-> "p0", orientation |-> "q0"], EyeFov(i))]}
\* XrViewStatePICOEXT.gsIndex as it is after xrLocateViews: what the runtime
\* wrote, or what the unset local held if the runtime wrote nothing.
GsIndices == {1, 2}
OneGsIndex == {1}
\* Views at one pose with any field of view per eye.
FovViewInputs ==
    {[i \in Eyes |-> View([position |-> "p0", orientation |-> "q0"], f[i])] :
        f \in [Eyes -> Fovs]}
\* m_swapchains as CreateSwapchains leaves it: one swapchain per view, with a
\* handle and a size of its own.
Swapchain(i) ==
    IF i = Side_LEFT THEN [handle |-> "swapchain0", width |-> "w0", height |-> "h0"]
                     ELSE [handle |-> "swapchain1", width |-> "w1", height |-> "h1"]
m_swapchains == [i \in Eyes |-> Swapchain(i)]
\* XrSwapchainSubImage and XrCompositionLayerProjectionView; the element
\* resize() value-initialises.
SubImage(sc, off, ext) == [swapchain |-> sc, imageRect |-> [offset |-> off, extent |-> ext]]
NoSubImage == SubImage("XR_NULL_HANDLE", <<0, 0>>, <<"zero", "zero">>)
NoProjectionView == [pose |-> NoPose, fov |-> NoFov, subImage |-> NoSubImage]
OneViewFlagInput == {{POSITION_VALID, ORIENTATION_VALID}}

\* Aim poses of a hand; the two hands are never at the same pose.
AimPoses(hand) == IF hand = Side_LEFT THEN {"L0", "L1"} ELSE {"R0", "R1"}
StaleAimPose(hand) == IF hand = Side_LEFT THEN "L0" ELSE "R0"
AimLocated(r, f, p) == [res |-> r, flags |-> f, pose |-> p]
\* What xrLocateSpace may return for a hand: XR_SUCCESS with both bits and a
\* pose, XR_SUCCESS with a bit missing, or the qualified success
\* XR_SESSION_LOSS_PENDING (a failure code throws, see CHECK_XRRESULT).
AimResults(hand) ==
    {AimLocated("XR_SUCCESS", {POSITION_VALID, ORIENTATION_VALID}, p) : p \in AimPoses(hand)}
    \cup {AimLocated("XR_SUCCESS", f, StaleAimPose(hand)) :
            f \in ValidityFlags \ {{POSITION_VALID, ORIENTATION_VALID}}}
    \cup {AimLocated("XR_SESSION_LOSS_PENDING", f, StaleAimPose(hand)) :
            f \in {{}, {POSITION_VALID, ORIENTATION_VALID}}}
HandInputs == {h \in [Hands -> UNION {AimResults(x) : x \in Hands}] :
                 \A x \in Hands : h[x] \in AimResults(x)}
OneHandInput ==
    {[x \in Hands |->
        AimLocated("XR_SUCCESS", {POSITION_VALID, ORIENTATION_VALID}, StaleAimPose(x))]}
NoAim == [x \in Hands |-> AimLocated("none", {}, "unset")]

HeadInputs == {[flags |-> {POSITION_VALID, ORIENTATION_VALID}, pose |-> "head0"]}
\* What xrLocateSpace of the view space may return: both bits and a pose, or
\* a bit missing, and then the pose field holds whatever the runtime left
\* there: a pose, or nothing meaningful.
HeadPoses == {"head0", "head1"}
HeadResults ==
    {[flags |-> {POSITION_VALID, ORIENTATION_VALID}, pose |-> p] : p \in HeadPoses}
    \cup {[flags |-> f, pose |-> p] :
            f \in ValidityFlags \ {{POSITION_VALID, ORIENTATION_VALID}},
            p \in HeadPoses \cup {"undefined"}}
HeadValid(loc) == POSITION_VALID \in loc.flags /\ ORIENTATION_VALID \in loc.flags
NoHead == [flags |-> {}, pose |-> "unset"]

\* What LatchFrame may return: no frame, or a frame with any pose matrix.
\* XrSwapchainImageWaitInfo before its timeout is set, and the textures
\* handed to RenderView before the swapchain loop.
NoWaitInfo == [timeout |-> "unset"]
NotDrawn == [i \in Eyes |-> "none"]

NotAvailable == [available |-> FALSE, poseMatrix |-> ZeroMatrix]
Available(m) == [available |-> TRUE, poseMatrix |-> m]
LatchInputs == {NotAvailable} \cup {Available(m) : m \in PoseMatrix}
FewLatchInputs == {NotAvailable, Available([rotation |-> "q1", translation |-> "p1"])}

\* XrActionStateBoolean as xrGetActionStateBoolean fills it in.
ActionStateBoolean(a, c, v) ==
    [isActive |-> a, changedSinceLastSync |-> c, currentState |-> v]
\* An inactive action reports neither a change nor a state.
Inactive == ActionStateBoolean(FALSE, FALSE, FALSE)
PressedNow == ActionStateBoolean(TRUE, TRUE, TRUE)
HeldDown == ActionStateBoolean(TRUE, FALSE, TRUE)
ReleasedNow == ActionStateBoolean(TRUE, TRUE, FALSE)
HeldUp == ActionStateBoolean(TRUE, FALSE, FALSE)

\* The boolean actions that set a bit of booleanComps, and the back action.
MappedButtons == {"homeAction", "TriggerTouchAction", "AAction", "BAction", "XAction", "YAction"}
Buttons == MappedButtons \cup {"backAction"}
ButtonBit(b) ==
    CASE b = "homeAction" -> "cxrButton_System"
      [] b = "TriggerTouchAction" -> "cxrButton_Trigger_Touch"
      [] b = "AAction" -> "cxrButton_A"
      [] b = "BAction" -> "cxrButton_B"
      [] b = "XAction" -> "cxrButton_X"
      [] b = "YAction" -> "cxrButton_Y"

Controls == Hands \X Buttons
\* The runtime's value of a boolean action as of an xrSyncActions: not bound
\* or tracked, released, or pressed.
ControlValues == {"inactive", "up", "down"}
ActionStateOf(act, st) ==
    [c \in Controls |-> IF c \in act THEN st[c] ELSE "inactive"]
\* What one xrSyncActions may find: at most MaxActive controls active, each
\* released or pressed.
ActionStates ==
    UNION {{ActionStateOf(act, st) : st \in [act -> {"up", "down"}]} :
             act \in {a \in SUBSET Controls : Cardinality(a) <= MaxActive}}
NoActionState == [c \in Controls |-> "inactive"]
OneActionState == {NoActionState}
\* xrGetActionStateBoolean after a sync that found cur where the sync before
\* found prev: changedSinceLastSync tells whether currentState differs from
\* the one before the sync (that of an inactive action being false).
ReadBoolean(prev, cur) ==
    IF cur = "inactive"
       THEN Inactive
       ELSE ActionStateBoolean(TRUE, (cur = "down") # (prev = "down"), cur = "down")
\* The reads of one PollActions.
SampleOf(prev, cur) ==
    [h \in Hands |-> [b \in Buttons |-> ReadBoolean(prev[<<h, b>>], cur[<<h, b>>])]]
NoSample == [h \in Hands |-> [b \in Buttons |-> Inactive]]

\* The float and vector actions PollActions reads for each hand.
ScalarActions == {"grabAction", "triggerAction", "joystickAction", "GripAction"}
\* Analog values of an active control, in hundredths: at the haptic threshold
\* and above it.
ScalarValues == {90, 95}
\* grabValue.currentState > 0.9f, in hundredths.
HapticThreshold == 90
\* XrActionStateFloat and XrActionStateVector2f as the runtime fills them in;
\* the state of an inactive action is zero.
ActionStateFloat(a, v) == [isActive |-> a, currentState |-> v]
ActionStateVector2f(a, vx, vy) == [isActive |-> a, currentState |-> [x |-> vx, y |-> vy]]
InactiveFloat == ActionStateFloat(FALSE, 0)
InactiveVector2f == ActionStateVector2f(FALSE, 0, 0)
\* What xrGetActionStateFloat and xrGetActionStateVector2f may return for a
\* bound action.
FloatStates == {InactiveFloat} \cup {ActionStateFloat(TRUE, v) : v \in ScalarValues}
Vector2fStates ==
    {InactiveVector2f}
    \cup {ActionStateVector2f(TRUE, vx, vy) : vx \in ScalarValues, vy \in ScalarValues}
\* The reads of one hand; grabAction, being unbound, is inactive.
HandScalars ==
    [grabAction : {InactiveFloat}, triggerAction : FloatStates,
     joystickAction : Vector2fStates, GripAction : FloatStates]
\* The reads of one hand with n actions active.
HandScalarsWith(n) ==
    {r \in HandScalars : Cardinality({a \in ScalarActions : r[a].isActive}) = n}
\* What the reads of one PollActions may find: at most MaxActive controls
\* active, each with a value.
ScalarStates ==
    UNION {{[h \in Hands |-> IF h = Side_LEFT THEN l ELSE r] :
              l \in HandScalarsWith(n[1]), r \in HandScalarsWith(n[2])} :
             n \in {m \in (0 .. MaxActive) \X (0 .. MaxActive) : m[1] + m[2] <= MaxActive}}
NoScalarState ==
    [h \in Hands |->
        [grabAction |-> InactiveFloat, triggerAction |-> InactiveFloat,
         joystickAction |-> InactiveVector2f, GripAction |-> InactiveFloat]]
OneScalarState == {NoScalarState}

\* The scalars of a controller, and the action each is copied from.
Scalars ==
    {"cxrAnalog_Trigger", "cxrAnalog_Grip", "cxrAnalog_JoystickX", "cxrAnalog_JoystickY"}
ScalarSource(k) ==
    CASE k = "cxrAnalog_Trigger" -> "triggerAction"
      [] k = "cxrAnalog_Grip" -> "GripAction"
      [] k = "cxrAnalog_JoystickX" -> "joystickAction"
      [] k = "cxrAnalog_JoystickY" -> "joystickAction"
\* scalarComps of one controller in cxrVRTrackingState trackingState{}.
ZeroScalarComps ==
    [cxrAnalog_Trigger |-> 0, cxrAnalog_Grip |-> 0,
     cxrAnalog_JoystickX |-> 0, cxrAnalog_JoystickY |-> 0]
\* cxrVRTrackingState trackingState{}.
ZeroTrackingState ==
    [h \in Hands |-> [booleanComps |-> {}, scalarComps |-> ZeroScalarComps]]

\* ---------------------------------------------------------- runtime events
\* XrSessionState.
SessionStates ==
    {"XR_SESSION_STATE_UNKNOWN", "XR_SESSION_STATE_IDLE", "XR_SESSION_STATE_READY",
     "XR_SESSION_STATE_SYNCHRONIZED", "XR_SESSION_STATE_VISIBLE",
     "XR_SESSION_STATE_FOCUSED", "XR_SESSION_STATE_STOPPING",
     "XR_SESSION_STATE_LOSS_PENDING", "XR_SESSION_STATE_EXITING"}

\* Values of stateChangedEvent.session: the owned session, the null handle, a
\* handle of another session.
SessionHandles == {"m_session", "XR_NULL_HANDLE", "other"}

\* Event types that have a case of their own in the switch of PollEvents.
CaseTypes ==
    {"XR_TYPE_EVENT_DATA_INSTANCE_LOSS_PENDING",
     "XR_TYPE_EVENT_DATA_SESSION_STATE_CHANGED",
     "XR_TYPE_EVENT_CONTROLLER_STATE_CHANGED",
     "XR_TYPE_EVENT_DATA_INTERACTION_PROFILE_CHANGED"}

\* Event types that fall to the default case: reference space change pending,
\* events lost (logged by TryReadNextEvent) and a type the switch does not name.
DefaultTypes ==
    {"XR_TYPE_EVENT_DATA_REFERENCE_SPACE_CHANGE_PENDING",
     "XR_TYPE_EVENT_DATA_EVENTS_LOST",
     "XR_TYPE_EVENT_DATA_PERF_SETTINGS_EXT"}

EventData(t, st, h) == [type |-> t, state |-> st, session |-> h]
NoEvent == EventData("none", "none", "none")
SessionStateChanged(st, h) == EventData("XR_TYPE_EVENT_DATA_SESSION_STATE_CHANGED", st, h)
InstanceLossPending == EventData("XR_TYPE_EVENT_DATA_INSTANCE_LOSS_PENDING", "none", "none")

\* Every event xrPollEvent can hand over.
Events ==
    {SessionStateChanged(st, h) : st \in SessionStates, h \in SessionHandles}
      \cup {EventData(t, "none", "none") :
              t \in (CaseTypes \ {"XR_TYPE_EVENT_DATA_SESSION_STATE_CHANGED"}) \cup DefaultTypes}

\* Events of the owned session, the loss of the instance, and a Stopping
\* event of another session.
OwnEvents ==
    {SessionStateChanged(st, "m_session") : st \in SessionStates}
      \cup {InstanceLossPending, SessionStateChanged("XR_SESSION_STATE_STOPPING", "other")}

\* -------------------------------------------------------------------- init
Init ==
    /\ pc = "idle"
    /\ m_cloudxr = FALSE
    /\ shouldRender = FALSE
    /\ m_views = [i \in Eyes |-> View(NoPose, NoFov)]
    /\ mGsIndex = 0
    /\ viewStateFlags = {}
    /\ handLoc = NoAim
    /\ prevAim = [x \in Hands |-> "unset"]
    /\ handPose = <<>>
    /\ headLoc = NoHead
    /\ goodHead = "unset"
    /\ cxrSensed = [head |-> "unset", hands |-> <<>>, calls |-> 0]
    /\ framevaild = FALSE
    /\ framesLatched = ZeroFrame
    /\ pose = [i \in Eyes |-> NoPose]
    /\ projectionLayerViews = <<>>
    /\ eye = 0
    /\ waitInfo = NoWaitInfo
    /\ drawn = NotDrawn
    /\ layers = 0
    /\ frameEndInfo = [layerCount |-> 0, views |-> <<>>, gsIndex |-> 0]
    /\ cxrHeld = {}
    /\ cxrLatched = 0
    /\ releaseLog = <<>>
    /\ ticks = 0
    /\ endFrames = 0
    /\ trace = <<>>
    /\ thrown = "none"
    /\ actionState = NoActionState
    /\ sample = NoSample
    /\ scalarSample = NoScalarState
    /\ haptics = {}
    /\ forwarded = 0
    /\ lapsed = {}
    /\ trackingState = ZeroTrackingState
    /\ ret = FALSE
    /\ cxrTracking = [received |-> FALSE, state |-> ZeroTrackingState, tick |-> 0]
    /\ heldAfterPress = {}
    /\ m_sessionState = "XR_SESSION_STATE_UNKNOWN"
    /\ m_sessionRunning = FALSE
    /\ exitRenderLoop = FALSE
    /\ requestRestart = FALSE
    /\ pending = 0
    /\ unread = 0
    /\ event = NoEvent
    /\ called = "none"
    /\ exits = <<>>
    /\ exitBefore = FALSE
    /\ lifecycle = <<>>
    /\ last = "none"

Call(name, arg) == <<name, arg>>

\* CHECK_XRCMD / CHECK_XRRESULT on a failed runtime call: the exception leaves
\* the handler, and nothing after the call runs.
Throw(name) ==
    /\ thrown' = name
    /\ pc' = "thrown"
    /\ UNCHANGED <<m_cloudxr, inputVars, sessionVars, frameVars, trace>>

\* ----------------------------------------------------- CreateCloudxrClient
CreateCloudxrClient ==
    /\ pc = "idle"
    /\ ~m_cloudxr
    /\ m_cloudxr' = TRUE
    /\ UNCHANGED <<renderVars, inputVars, sessionVars>>

\* Mutant of CallerRenders: the caller renders whether or not it has created
\* the remote client.
CallerRendersUnprepared == TRUE

\* The caller renders only once the remote client exists.
CallerRenders == m_cloudxr

\* ------------------------------------------------------------- RenderFrame
\* xrWaitFrame: the tick starts; the locals of RenderFrame are constructed.
WaitFrame ==
    /\ pc = "idle"
    /\ CallerRenders
    /\ ticks < MaxTicks
    /\ \/ /\ \E sr \in BOOLEAN : shouldRender' = sr
          /\ ticks' = ticks + 1
          /\ projectionLayerViews' = <<>>
          /\ layers' = 0
          /\ trace' = <<Call("xrWaitFrame", 0)>>
          /\ waitInfo' = NoWaitInfo
          /\ drawn' = NotDrawn
          /\ pc' = "waited"
          /\ UNCHANGED <<inputVars, sessionVars, m_cloudxr, thrown, m_views, mGsIndex, viewStateFlags, handLoc, prevAim, handPose,
                         headLoc, goodHead, cxrSensed, framevaild, framesLatched, pose, eye,
                         frameEndInfo, cxrHeld, cxrLatched, releaseLog, endFrames>>
       \/ Throw("xrWaitFrame")

\* Mutant of BeginFrame: the layer is rendered whatever shouldRender says.
BeginFrameRendersAlways ==
    /\ pc = "waited"
    /\ \/ /\ trace' = Append(trace, Call("xrBeginFrame", 0))
          /\ pc' = "views"
          /\ UNCHANGED <<inputVars, sessionVars, m_cloudxr, thrown, frameVars>>
       \/ Throw("xrBeginFrame")

\* xrBeginFrame, then the shouldRender test.
BeginFrame ==
    /\ pc = "waited"
    /\ \/ /\ trace' = Append(trace, Call("xrBeginFrame", 0))
          /\ pc' = IF shouldRender THEN "views" ELSE "end"
          /\ UNCHANGED <<inputVars, sessionVars, m_cloudxr, thrown, shouldRender, m_views, mGsIndex, viewStateFlags, handLoc, prevAim,
                         handPose, headLoc, goodHead, cxrSensed, framevaild, framesLatched, pose,
                         projectionLayerViews, eye, waitInfo, drawn, layers, frameEndInfo, cxrHeld,
                         cxrLatched, releaseLog, ticks, endFrames>>
       \/ Throw("xrBeginFrame")

\* Mutant of FreshFrame: the frame record outlives the tick.
StaleFrame(prior) == prior

\* framesLatched as RenderLayer hands it to LatchFrame, prior being the record
\* of the tick before: a local, zero-initialised in each tick.
FreshFrame(prior) == ZeroFrame

\* Mutant of KeepSubmitting: the return false of the test is live.
ReturnOnInvalidViews(flags) ==
    POSITION_VALID \in flags /\ ORIENTATION_VALID \in flags

\* The test on the view state flags: its body is commented out, so RenderLayer
\* goes on whatever the flags are.
KeepSubmitting(flags) == TRUE

\* RenderLayer entry: xrLocateViews, the validity test, resize of the views.
LocateViews(viewInputs, flagInputs, gsInputs) ==
    /\ pc = "views"
    /\ \/ /\ \E v \in viewInputs, f \in flagInputs, g \in gsInputs :
              /\ m_views' = v
              /\ mGsIndex' = g
              /\ trace' = Append(trace, Call("xrLocateViews", g))
              /\ viewStateFlags' = f
              /\ IF KeepSubmitting(f)
                    THEN /\ projectionLayerViews' = [i \in 1 .. Side_COUNT |-> NoProjectionView]
                         /\ pc' = "hands"
                    ELSE /\ projectionLayerViews' = projectionLayerViews
                         /\ pc' = "end"
          /\ framevaild' = FALSE
          /\ framesLatched' = FreshFrame(framesLatched)
          /\ handPose' = <<>>
          /\ pose' = [i \in Eyes |-> NoPose]
          /\ eye' = 0
          /\ UNCHANGED <<inputVars, sessionVars, m_cloudxr, thrown, shouldRender, handLoc, prevAim, headLoc, goodHead, cxrSensed,
                         waitInfo, drawn,
                         layers, frameEndInfo, cxrHeld, cxrLatched, releaseLog, ticks,
                         endFrames>>
       \* mGsIndex is assigned before the result is checked.
       \/ /\ \E g \in gsInputs : mGsIndex' = g
          /\ thrown' = "xrLocateViews"
          /\ pc' = "thrown"
          /\ UNCHANGED <<m_cloudxr, inputVars, sessionVars, trace, shouldRender, m_views,
                         viewStateFlags, handLoc, prevAim, handPose, headLoc, goodHead,
                         cxrSensed, framevaild, framesLatched, pose, projectionLayerViews,
                         eye, waitInfo, drawn, layers, frameEndInfo, cxrHeld, cxrLatched,
                         releaseLog, ticks, endFrames>>

\* A hand's pose is collected when the call is an unqualified success and both
\* validity bits are set.
AimValid(loc) ==
    /\ loc.res = "XR_SUCCESS"
    /\ POSITION_VALID \in loc.flags
    /\ ORIENTATION_VALID \in loc.flags

\* Mutant of CollectHandPoses: the right hand is pushed first.
CollectRightFirst(loc) ==
    (IF AimValid(loc[Side_RIGHT]) THEN <<loc[Side_RIGHT].pose>> ELSE <<>>)
    \o (IF AimValid(loc[Side_LEFT]) THEN <<loc[Side_LEFT].pose>> ELSE <<>>)

\* Mutant of CollectHandPoses: the validity bits are not tested.
CollectIgnoringFlags(loc) ==
    (IF loc[Side_LEFT].res = "XR_SUCCESS" THEN <<loc[Side_LEFT].pose>> ELSE <<>>)
    \o (IF loc[Side_RIGHT].res = "XR_SUCCESS" THEN <<loc[Side_RIGHT].pose>> ELSE <<>>)

\* The hand loop: handPose.push_back of the valid hands, LEFT then RIGHT.
CollectHandPoses(loc) ==
    (IF AimValid(loc[Side_LEFT]) THEN <<loc[Side_LEFT].pose>> ELSE <<>>)
    \o (IF AimValid(loc[Side_RIGHT]) THEN <<loc[Side_RIGHT].pose>> ELSE <<>>)

\* xrLocateSpace of both aim spaces.
LocateHands(handInputs) ==
    /\ pc = "hands"
    /\ \/ /\ \E h \in handInputs :
              /\ handLoc' = h
              /\ handPose' = CollectHandPoses(h)
          /\ prevAim' = [x \in Hands |->
                           IF AimValid(handLoc[x]) THEN handLoc[x].pose ELSE "unset"]
          /\ trace' = trace \o <<Call("xrLocateSpace", Side_LEFT), Call("xrLocateSpace", Side_RIGHT)>>
          /\ pc' = "head"
          /\ UNCHANGED <<inputVars, sessionVars, m_cloudxr, thrown, shouldRender, m_views, mGsIndex, viewStateFlags, headLoc, goodHead, cxrSensed,
                         framevaild, framesLatched, pose, projectionLayerViews, eye, waitInfo, drawn, layers,
                         frameEndInfo, cxrHeld, cxrLatched, releaseLog, ticks, endFrames>>
       \/ Throw("xrLocateSpace")

\* xrLocateSpace of the view space, then SetSenserPoseState with the located
\* head pose as it is and the collected hand poses.
SetSenserPoseState(headInputs) ==
    /\ pc = "head"
    /\ \/ /\ \E hd \in headInputs :
              /\ headLoc' = hd
              /\ goodHead' = IF HeadValid(hd) THEN hd.pose ELSE goodHead
              /\ cxrSensed' = [head |-> hd.pose, hands |-> handPose,
                               calls |-> IF cxrSensed.calls < MaxTicks
                                            THEN cxrSensed.calls + 1 ELSE cxrSensed.calls]
          /\ trace' = trace \o <<Call("xrLocateSpace", Side_COUNT), Call("SetSenserPoseState", 0)>>
          /\ pc' = "latch"
          /\ UNCHANGED <<inputVars, sessionVars, m_cloudxr, thrown, shouldRender, m_views, mGsIndex, viewStateFlags, handLoc, prevAim,
                         handPose, framevaild, framesLatched, pose, projectionLayerViews,
                         eye, waitInfo, drawn, layers, frameEndInfo, cxrHeld, cxrLatched, releaseLog, ticks,
                         endFrames>>
       \/ Throw("xrLocateSpace")

\* LatchFrame: the remote source hands over its newest frame, or none.  A
\* frame's poseID is its number in latch order; a call that returns no frame
\* leaves framesLatched as it was zero-initialised.
LatchFrame(latchInputs) ==
    /\ pc = "latch"
    /\ \E out \in latchInputs :
        /\ framevaild' = out.available
        /\ IF out.available
              THEN /\ framesLatched' = LatchedFrameRecord(cxrLatched + 1, out.poseMatrix)
                   /\ cxrLatched' = cxrLatched + 1
                   /\ cxrHeld' = cxrHeld \cup {cxrLatched + 1}
              ELSE /\ framesLatched' = framesLatched
                   /\ UNCHANGED <<cxrLatched, cxrHeld>>
        /\ trace' = Append(trace, Call("LatchFrame", IF out.available THEN 1 ELSE 0))
    /\ pc' = "stamp"
    /\ UNCHANGED <<inputVars, sessionVars, m_cloudxr, thrown, shouldRender, m_views, mGsIndex, viewStateFlags, handLoc, prevAim,
                   handPose, headLoc, goodHead, cxrSensed, pose, projectionLayerViews, eye, waitInfo, drawn,
                   layers, frameEndInfo, releaseLog, ticks, endFrames>>

\* Mutant of EyePose: the latched frame overrides the position only.
EyePosePositionOnly(i) ==
    IF framevaild
       THEN [position |-> cxrGetTranslation(framesLatched.poseMatrix),
             orientation |-> m_views[i].pose.orientation]
       ELSE m_views[i].pose

\* Mutant of EyePose: without a frame both eyes take the first view's pose.
EyePoseFirstView(i) ==
    IF framevaild
       THEN [position |-> cxrGetTranslation(framesLatched.poseMatrix),
             orientation |-> cxrToQuaternion(framesLatched.poseMatrix)]
       ELSE m_views[0].pose

\* pose[i]: the local view pose, overridden in position and orientation by the
\* latched frame's pose when a frame was latched.
EyePose(i) ==
    IF framevaild
       THEN [position |-> cxrGetTranslation(framesLatched.poseMatrix),
             orientation |-> cxrToQuaternion(framesLatched.poseMatrix)]
       ELSE m_views[i].pose

\* The two loops that fill pose[].
StampPose ==
    /\ pc = "stamp"
    /\ pose' = [i \in Eyes |-> EyePose(i)]
    /\ eye' = 0
    /\ pc' = "acquire"
    /\ UNCHANGED <<inputVars, sessionVars, m_cloudxr, thrown, shouldRender, m_views, mGsIndex, viewStateFlags, handLoc, prevAim,
                   handPose, headLoc, goodHead, cxrSensed, framevaild, framesLatched,
                   projectionLayerViews, layers, frameEndInfo, cxrHeld, cxrLatched,
                   releaseLog, ticks, endFrames, trace, waitInfo, drawn>>

\* The steps of the swapchain loop leave everything but pc, eye, the views and
\* the trace alone.
LoopFrame ==
    UNCHANGED <<inputVars, sessionVars, m_cloudxr, thrown, shouldRender, m_views, mGsIndex, viewStateFlags, handLoc, prevAim,
                handPose, headLoc, goodHead, cxrSensed, framevaild, framesLatched, pose, layers,
                frameEndInfo, cxrHeld, cxrLatched, releaseLog, ticks, endFrames>>

\* Mutant of LoopContinues: the loop stops one view early.
LoopStopsEarly(i) == i < Side_COUNT - 1

\* i < viewCountOutput, the test of the swapchain loop.
LoopContinues(i) == i < Side_COUNT

\* Mutant of AcquireSwapchainImage: the image is drawn to without the wait.
AcquireSkipsWait ==
    /\ pc = "acquire"
    /\ \/ /\ trace' = Append(trace, Call("xrAcquireSwapchainImage", eye))
          /\ pc' = "draw"
          /\ UNCHANGED <<eye, projectionLayerViews, waitInfo, drawn>>
          /\ LoopFrame
       \/ Throw("xrAcquireSwapchainImage")

AcquireSwapchainImage ==
    /\ pc = "acquire"
    /\ \/ /\ trace' = Append(trace, Call("xrAcquireSwapchainImage", eye))
          /\ pc' = "wait"
          /\ UNCHANGED <<eye, projectionLayerViews, waitInfo, drawn>>
          /\ LoopFrame
       \/ Throw("xrAcquireSwapchainImage")

\* waitInfo.timeout = XR_INFINITE_DURATION.
WaitTimeout == "XR_INFINITE_DURATION"

\* Mutant of WaitSwapchainImage: a failed wait is noted and the eye is drawn.
WaitIgnoresFailure ==
    /\ pc = "wait"
    /\ waitInfo' = [timeout |-> WaitTimeout]
    /\ trace' = Append(trace, Call("xrWaitSwapchainImage", eye))
    /\ pc' = "draw"
    /\ \E failed \in BOOLEAN :
          thrown' = IF failed THEN "xrWaitSwapchainImage" ELSE thrown
    /\ UNCHANGED <<inputVars, sessionVars, m_cloudxr, shouldRender, m_views, mGsIndex, viewStateFlags,
                   handLoc, prevAim, handPose, headLoc, goodHead, cxrSensed, framevaild,
                   framesLatched, pose, layers, frameEndInfo, cxrHeld, cxrLatched,
                   releaseLog, ticks, endFrames, eye, projectionLayerViews, drawn>>

WaitSwapchainImage ==
    /\ pc = "wait"
    /\ \/ /\ waitInfo' = [timeout |-> WaitTimeout]
          /\ trace' = Append(trace, Call("xrWaitSwapchainImage", eye))
          /\ pc' = "draw"
          /\ UNCHANGED <<eye, projectionLayerViews, drawn>>
          /\ LoopFrame
       \/ Throw("xrWaitSwapchainImage")

\* Mutant of ProjectionView: both eyes are given the left eye's field of view
\* and swapchain.
ProjectionViewOfLeftEye(i) ==
    [pose |-> pose[i],
     fov |-> m_views[Side_LEFT].fov,
     subImage |-> SubImage(m_swapchains[Side_LEFT].handle, <<0, 0>>,
                           <<m_swapchains[Side_LEFT].width, m_swapchains[Side_LEFT].height>>)]

\* projectionLayerViews[i] as the loop fills it in: the stamped pose, the fov
\* of the local view, and the whole of the view's swapchain.
ProjectionView(i) ==
    [pose |-> pose[i],
     fov |-> m_views[i].fov,
     subImage |-> SubImage(m_swapchains[i].handle, <<0, 0>>,
                           <<m_swapchains[i].width, m_swapchains[i].height>>)]

\* projectionLayerViews[i] is filled in and RenderView draws the eye's texture
\* of framesLatched.
RenderView ==
    /\ pc = "draw"
    /\ projectionLayerViews' = [projectionLayerViews EXCEPT ![eye + 1] = ProjectionView(eye)]
    /\ drawn' = [drawn EXCEPT ![eye] = framesLatched.frames[eye]]
    /\ trace' = Append(trace, Call("RenderView", eye))
    /\ pc' = "release"
    /\ UNCHANGED <<eye, waitInfo>>
    /\ LoopFrame

\* Mutant of ReleaseSwapchainImage: a failed release gives the latched frame
\* back before the failure is thrown.
ReleaseFailureUnlatches ==
    /\ pc = "release"
    /\ \/ /\ trace' = Append(trace, Call("xrReleaseSwapchainImage", eye))
          /\ eye' = eye + 1
          /\ pc' = IF LoopContinues(eye + 1) THEN "acquire" ELSE "unlatch"
          /\ UNCHANGED <<projectionLayerViews, waitInfo, drawn>>
          /\ LoopFrame
       \/ /\ thrown' = "xrReleaseSwapchainImage"
          /\ pc' = "thrown"
          /\ IF framevaild
                THEN /\ cxrHeld' = cxrHeld \ {framesLatched.poseID}
                     /\ releaseLog' = Append(releaseLog, framesLatched.poseID)
                     /\ trace' = Append(trace, Call("ReleaseFrame", framesLatched.poseID))
                ELSE UNCHANGED <<cxrHeld, releaseLog, trace>>
          /\ UNCHANGED <<inputVars, sessionVars, m_cloudxr, shouldRender, m_views, mGsIndex,
                         viewStateFlags, handLoc, prevAim, handPose, headLoc, goodHead,
                         cxrSensed, framevaild, framesLatched, pose, layers, frameEndInfo,
                         cxrLatched, ticks, endFrames, eye, projectionLayerViews, waitInfo,
                         drawn>>

ReleaseSwapchainImage ==
    /\ pc = "release"
    /\ \/ /\ trace' = Append(trace, Call("xrReleaseSwapchainImage", eye))
          /\ eye' = eye + 1
          /\ pc' = IF LoopContinues(eye + 1) THEN "acquire" ELSE "unlatch"
          /\ UNCHANGED <<projectionLayerViews, waitInfo, drawn>>
          /\ LoopFrame
       \/ Throw("xrReleaseSwapchainImage")

\* Mutants of ReleaseGuard: ReleaseFrame without the test, and never.
ReleaseAlways == TRUE
ReleaseNever == FALSE

\* if (framevaild) before ReleaseFrame.
ReleaseGuard == framevaild

\* ReleaseFrame when a frame was latched; RenderLayer then returns true and
\* RenderFrame pushes the layer.
ReleaseFrame ==
    /\ pc = "unlatch"
    /\ IF ReleaseGuard
          THEN /\ cxrHeld' = cxrHeld \ {framesLatched.poseID}
               /\ releaseLog' = Append(releaseLog, framesLatched.poseID)
               /\ trace' = Append(trace, Call("ReleaseFrame", framesLatched.poseID))
          ELSE UNCHANGED <<cxrHeld, releaseLog, trace>>
    /\ layers' = layers + 1
    /\ pc' = "end"
    /\ UNCHANGED <<inputVars, sessionVars, m_cloudxr, thrown, shouldRender, m_views, mGsIndex, viewStateFlags, handLoc, prevAim,
                   handPose, headLoc, goodHead, cxrSensed, framevaild, framesLatched, pose,
                   projectionLayerViews, eye, waitInfo, drawn, frameEndInfo, cxrLatched, ticks,
                   endFrames>>

\* Mutant of AttachedGsIndex: a tick without a layer attaches index 0.
AttachedGsIndexOfLayer == IF layers > 0 THEN mGsIndex ELSE 0

\* xrFrameEndInfoEXT.gsIndex = mGsIndex, chained to the frame end info.
AttachedGsIndex == mGsIndex

\* Mutant of EndFrame: a tick without a layer returns without xrEndFrame.
EndFrameSkipsEmpty ==
    /\ pc = "end"
    /\ \/ /\ IF layers > 0
                THEN /\ frameEndInfo' = [layerCount |-> layers, views |-> projectionLayerViews,
                                          gsIndex |-> AttachedGsIndex]
                     /\ endFrames' = endFrames + 1
                     /\ trace' = Append(trace, Call("xrEndFrame", layers))
                ELSE UNCHANGED <<frameEndInfo, endFrames, trace>>
          /\ pc' = "idle"
          /\ last' = "RenderFrame"
          /\ UNCHANGED <<inputVars, eventVars, m_cloudxr, thrown, shouldRender, m_views, mGsIndex, viewStateFlags, handLoc,
                         prevAim, handPose, headLoc, goodHead, cxrSensed, framevaild, framesLatched,
                         pose, projectionLayerViews, eye, waitInfo, drawn, layers, cxrHeld, cxrLatched,
                         releaseLog, ticks>>
       \/ Throw("xrEndFrame")

\* xrEndFrame with the layers pushed so far; RenderFrame returns.
EndFrame ==
    /\ pc = "end"
    /\ \/ /\ frameEndInfo' = [layerCount |-> layers,
                              views |-> IF layers > 0 THEN projectionLayerViews ELSE <<>>,
                              gsIndex |-> AttachedGsIndex]
          /\ endFrames' = endFrames + 1
          /\ trace' = Append(trace, Call("xrEndFrame", layers))
          /\ pc' = "idle"
          /\ last' = "RenderFrame"
          /\ UNCHANGED <<inputVars, eventVars, m_cloudxr, thrown, shouldRender, m_views, mGsIndex, viewStateFlags, handLoc, prevAim,
                         handPose, headLoc, goodHead, cxrSensed, framevaild, framesLatched, pose,
                         projectionLayerViews, eye, waitInfo, drawn, layers, cxrHeld, cxrLatched, releaseLog,
                         ticks>>
       \/ Throw("xrEndFrame")

\* ------------------------------------------------------------- PollActions
\* Mutant of SetsBit: the bit follows the level of the button.
SetsBitOnLevel(b, v) == v.isActive /\ v.currentState

\* Mutant of BackSetsRet: ret is set on the press edge.
BackSetsRetOnPress(v) ==
    (v.isActive /\ v.changedSinceLastSync) /\ v.currentState

\* Whether the read v of boolean action b sets the action's bit: the tests on
\* isActive, changedSinceLastSync and currentState around each |=.
SetsBit(b, v) ==
    CASE b = "homeAction" ->
           v.isActive /\ v.changedSinceLastSync /\ v.currentState
      [] b = "TriggerTouchAction" ->
           v.isActive /\ (v.changedSinceLastSync /\ v.currentState)
      [] OTHER ->
           (v.isActive /\ v.changedSinceLastSync) /\ v.currentState

\* Whether the read v of the back action sets ret: the else branch of the
\* currentState test, under isActive and changedSinceLastSync.
BackSetsRet(v) ==
    (v.isActive /\ v.changedSinceLastSync) /\ ~v.currentState

\* Mutant of FreshScalar: the scalar keeps the value of the snapshot before.
StaleScalar(prior) == prior

\* The value a scalar of this call's snapshot has before the hand loop writes
\* it, prior being its value in the snapshot of the call before: trackingState
\* is a local, zero-initialised by each call.
FreshScalar(prior) == 0

\* Mutant of ScalarComps: the grip scalar is copied from the grab action.
ScalarCompsGripFromGrab(f, prior) ==
    [cxrAnalog_Trigger |->
        IF f["triggerAction"].isActive
           THEN f["triggerAction"].currentState
           ELSE FreshScalar(prior.cxrAnalog_Trigger),
     cxrAnalog_Grip |->
        IF f["grabAction"].isActive
           THEN f["grabAction"].currentState
           ELSE FreshScalar(prior.cxrAnalog_Grip),
     cxrAnalog_JoystickX |->
        IF f["joystickAction"].isActive
           THEN f["joystickAction"].currentState.x
           ELSE FreshScalar(prior.cxrAnalog_JoystickX),
     cxrAnalog_JoystickY |->
        IF f["joystickAction"].isActive
           THEN f["joystickAction"].currentState.y
           ELSE FreshScalar(prior.cxrAnalog_JoystickY)]

\* scalarComps of one controller after the hand loop over its reads f: each
\* scalar is written only under the isActive test of its action.
ScalarComps(f, prior) ==
    [cxrAnalog_Trigger |->
        IF f["triggerAction"].isActive
           THEN f["triggerAction"].currentState
           ELSE FreshScalar(prior.cxrAnalog_Trigger),
     cxrAnalog_Grip |->
        IF f["GripAction"].isActive
           THEN f["GripAction"].currentState
           ELSE FreshScalar(prior.cxrAnalog_Grip),
     cxrAnalog_JoystickX |->
        IF f["joystickAction"].isActive
           THEN f["joystickAction"].currentState.x
           ELSE FreshScalar(prior.cxrAnalog_JoystickX),
     cxrAnalog_JoystickY |->
        IF f["joystickAction"].isActive
           THEN f["joystickAction"].currentState.y
           ELSE FreshScalar(prior.cxrAnalog_JoystickY)]

\* Whether the read v of the grab action starts the vibration: isActive and
\* currentState > 0.9f.
HapticApplied(v) == v.isActive /\ v.currentState > HapticThreshold

\* trackingState after the hand loop over the boolean reads s and the scalar
\* reads f, prior being the trackingState of the call before.
SnapshotOf(s, f, prior) ==
    [h \in Hands |->
        [booleanComps |-> {ButtonBit(b) : b \in {x \in MappedButtons : SetsBit(x, s[h][x])}},
         scalarComps |-> ScalarComps(f[h], prior[h].scalarComps)]]

\* Mutant of ForwardsTracking: the snapshot is never handed to the client.
ForwardsNever == FALSE

\* if (m_cloudxr.get()): the snapshot is forwarded only to an existing client.
ForwardsTracking == m_cloudxr

PollActions(actionStates, scalarStates) ==
    /\ pc = "idle"
    /\ \/ /\ \E a \in actionStates :
              /\ actionState' = a
              /\ sample' = SampleOf(actionState, a)
          /\ \E f \in scalarStates : scalarSample' = f
          /\ haptics' = {h \in Hands : HapticApplied(scalarSample'[h]["grabAction"])}
          /\ trackingState' = SnapshotOf(sample', scalarSample', trackingState)
          /\ forwarded' = IF ForwardsTracking THEN 1 ELSE 0
          /\ lapsed' =
                IF /\ forwarded = 1
                   /\ ForwardsTracking
                   /\ \E h \in Hands : cxrTracking.state[h].scalarComps # ZeroScalarComps
                   THEN {c \in Hands \X Scalars :
                           /\ cxrTracking.state[c[1]].scalarComps[c[2]] # 0
                           /\ ~scalarSample'[c[1]][ScalarSource(c[2])].isActive}
                   ELSE {}
          /\ ret' = (\E h \in Hands : BackSetsRet(sample'[h]["backAction"]))
          /\ cxrTracking' = IF ForwardsTracking
                               THEN [received |-> TRUE, state |-> trackingState',
                                     tick |-> ticks]
                               ELSE cxrTracking
          /\ heldAfterPress' =
                IF cxrTracking.received
                   THEN {c \in Hands \X MappedButtons :
                           sample[c[1]][c[2]] = PressedNow /\ sample'[c[1]][c[2]] = HeldDown}
                   ELSE {}
          /\ last' = "PollActions"
          /\ UNCHANGED <<m_cloudxr, renderVars, eventVars>>
       \/ Throw("xrSyncActions")

\* --------------------------------------------------------------- PollEvents
\* The runtime queues an event; its content is fixed when xrPollEvent hands
\* it over.
xrQueueEvent ==
    /\ pc # "thrown"
    /\ pending < MaxQueue
    /\ pending' = pending + 1
    /\ UNCHANGED <<m_sessionState, m_sessionRunning, exitRenderLoop, requestRestart,
                   unread, event, called, exits, exitBefore, lifecycle, last, m_cloudxr,
                   renderVars,
                   inputVars>>

\* Mutant of PollEvents: the output flags are left as the caller passed them.
PollEventsKeepsFlags ==
    /\ pc = "idle"
    /\ unread' = pending
    /\ event' = NoEvent
    /\ called' = "none"
    /\ exits' = <<>>
    /\ exitBefore' = exitRenderLoop
    /\ pc' = "polling"
    /\ UNCHANGED <<m_sessionState, m_sessionRunning, exitRenderLoop, requestRestart,
                   pending, lifecycle, last, m_cloudxr, inputVars, frameVars, trace,
                   thrown>>

\* Entry of PollEvents: both output flags are cleared.
PollEvents ==
    /\ pc = "idle"
    /\ exitRenderLoop' = FALSE
    /\ requestRestart' = FALSE
    /\ unread' = pending
    /\ event' = NoEvent
    /\ called' = "none"
    /\ exits' = <<>>
    /\ exitBefore' = exitRenderLoop
    /\ pc' = "polling"
    /\ UNCHANGED <<m_sessionState, m_sessionRunning, pending, lifecycle, last,
                   m_cloudxr, inputVars, frameVars, trace, thrown>>

\* Mutant of SwitchCase: a type without a case is taken for the loss of the
\* instance.
SwitchCaseNoDefault(t) ==
    IF t \in CaseTypes THEN t ELSE "XR_TYPE_EVENT_DATA_INSTANCE_LOSS_PENDING"

\* The case of the switch an event type is handled by.
SwitchCase(t) == IF t \in CaseTypes THEN t ELSE "default"

\* The session test of HandleSessionStateChangedEvent.
UnknownSession(e) == e.session # "XR_NULL_HANDLE" /\ e.session # "m_session"

\* What an event asks of the render loop: "exiting" and "loss-pending" for a
\* session state change of the owned session to Exiting and LossPending,
\* "instance-loss" for the loss of the instance, "none" for any other event.
ExitClass(e) ==
    CASE e.type = "XR_TYPE_EVENT_DATA_INSTANCE_LOSS_PENDING" -> "instance-loss"
      [] /\ e.type = "XR_TYPE_EVENT_DATA_SESSION_STATE_CHANGED"
         /\ ~UnknownSession(e)
         /\ e.state = "XR_SESSION_STATE_EXITING" -> "exiting"
      [] /\ e.type = "XR_TYPE_EVENT_DATA_SESSION_STATE_CHANGED"
         /\ ~UnknownSession(e)
         /\ e.state = "XR_SESSION_STATE_LOSS_PENDING" -> "loss-pending"
      [] OTHER -> "none"

\* The Ready and Stopping events handled last once e is handled: the cases of
\* the switch that begin and end the session are entered for the owned session
\* only.
LifecycleAfter(e, prior) ==
    LET before == IF prior = <<>> THEN <<>> ELSE <<prior[Len(prior)]>>
    IN  CASE e.type # "XR_TYPE_EVENT_DATA_SESSION_STATE_CHANGED" -> prior
          [] UnknownSession(e) -> prior
          [] e.state = "XR_SESSION_STATE_READY" -> before \o <<"ready">>
          [] e.state = "XR_SESSION_STATE_STOPPING" -> before \o <<"stopping">>
          [] OTHER -> prior

\* Mutant of RunningAfter: the Ready case does not mark the session running.
RunningIgnoresReady(st, running) ==
    IF st = "XR_SESSION_STATE_STOPPING" THEN FALSE ELSE running

\* Mutant of RunningAfter: the Stopping case leaves the running flag alone.
RunningIgnoresStopping(st, running) ==
    IF st = "XR_SESSION_STATE_READY" THEN TRUE ELSE running

\* m_sessionRunning after the switch on the new session state.
RunningAfter(st, running) ==
    CASE st = "XR_SESSION_STATE_READY" -> TRUE
      [] st = "XR_SESSION_STATE_STOPPING" -> FALSE
      [] OTHER -> running

\* The session call the switch makes for the new session state.
SessionCall(st) ==
    CASE st = "XR_SESSION_STATE_READY" -> "xrBeginSession"
      [] st = "XR_SESSION_STATE_STOPPING" -> "xrEndSession"
      [] OTHER -> "none"

\* Values written to the output flags.
Flags(e, r) == [exitRenderLoop |-> e, requestRestart |-> r]
\* Mutants of ExitingFlags, LossPendingFlags and InstanceLossFlags.
ExitingRestarts == Flags(TRUE, TRUE)
LossPendingNoRestart == Flags(TRUE, FALSE)
InstanceLossNoRestart == Flags(TRUE, FALSE)
\* Mutant of LossPendingFlags: the restart is asked for, the exit is not.
LossPendingRestartsOnly == Flags(FALSE, TRUE)
ExitingFlags == Flags(TRUE, FALSE)
LossPendingFlags == Flags(TRUE, TRUE)
InstanceLossFlags == Flags(TRUE, TRUE)

\* Mutant of FlagsAfter: flags that ask for the exit already are left alone.
FlagsFirstWins(st, flags) ==
    CASE flags.exitRenderLoop -> flags
      [] st = "XR_SESSION_STATE_EXITING" -> ExitingFlags
      [] st = "XR_SESSION_STATE_LOSS_PENDING" -> LossPendingFlags
      [] OTHER -> flags

\* The output flags after the switch on the new session state.
FlagsAfter(st, flags) ==
    CASE st = "XR_SESSION_STATE_EXITING" -> ExitingFlags
      [] st = "XR_SESSION_STATE_LOSS_PENDING" -> LossPendingFlags
      [] OTHER -> flags

\* HandleSessionStateChangedEvent: m_sessionState is assigned first, then the
\* session test, then the switch.  xrBeginSession comes before the write of
\* m_sessionRunning, xrEndSession after it.
HandleSessionStateChangedEvent(e) ==
    /\ m_sessionState' = e.state
    /\ IF UnknownSession(e)
          THEN /\ called' = "none"
               /\ UNCHANGED <<m_sessionRunning, exitRenderLoop, requestRestart, thrown>>
          ELSE \/ /\ m_sessionRunning' = RunningAfter(e.state, m_sessionRunning)
                  /\ exitRenderLoop' = FlagsAfter(e.state, Flags(exitRenderLoop, requestRestart)).exitRenderLoop
                  /\ requestRestart' = FlagsAfter(e.state, Flags(exitRenderLoop, requestRestart)).requestRestart
                  /\ called' = SessionCall(e.state)
                  /\ UNCHANGED thrown
               \/ /\ SessionCall(e.state) # "none"
                  /\ m_sessionRunning' = IF e.state = "XR_SESSION_STATE_STOPPING"
                                            THEN RunningAfter(e.state, m_sessionRunning)
                                            ELSE m_sessionRunning
                  /\ called' = "none"
                  /\ thrown' = SessionCall(e.state)
                  /\ UNCHANGED <<exitRenderLoop, requestRestart>>

\* Mutant of ReturnsAtOnce: every case of the switch returns.
ReturnsOnAnyCase(t) == t \in CaseTypes

\* The instance loss case returns from PollEvents at once.
ReturnsAtOnce(t) == t = "XR_TYPE_EVENT_DATA_INSTANCE_LOSS_PENDING"

\* The body of the switch for event e; thrown' tells whether a runtime call
\* made by it failed.
Dispatch(e) ==
    CASE SwitchCase(e.type) = "XR_TYPE_EVENT_DATA_INSTANCE_LOSS_PENDING" ->
            /\ exitRenderLoop' = InstanceLossFlags.exitRenderLoop
            /\ requestRestart' = InstanceLossFlags.requestRestart
            /\ called' = "none"
            /\ UNCHANGED <<m_sessionState, m_sessionRunning, thrown>>
      [] SwitchCase(e.type) = "XR_TYPE_EVENT_DATA_SESSION_STATE_CHANGED" ->
            HandleSessionStateChangedEvent(e)
      [] SwitchCase(e.type) = "XR_TYPE_EVENT_DATA_INTERACTION_PROFILE_CHANGED" ->
            \* LogActionSourceName: its runtime calls can fail.
            /\ called' = "none"
            /\ \/ UNCHANGED thrown
               \/ thrown' = "xrEnumerateBoundSourcesForAction"
            /\ UNCHANGED <<m_sessionState, m_sessionRunning, exitRenderLoop, requestRestart>>
      [] OTHER ->
            /\ called' = "none"
            /\ UNCHANGED <<m_sessionState, m_sessionRunning, exitRenderLoop,
                           requestRestart, thrown>>

\* One turn of the while loop: TryReadNextEvent hands over the next event and
\* the switch handles it; a failed xrPollEvent is thrown.
ReadEvent(events) ==
    /\ pc = "polling"
    /\ \/ /\ pending > 0
          /\ pending' = pending - 1
          /\ unread' = IF unread > 0 THEN unread - 1 ELSE 0
          /\ \E e \in events :
              /\ event' = e
              /\ exits' = IF ExitClass(e) = "none"
                             THEN exits
                             ELSE (IF exits = <<>> THEN <<>> ELSE <<exits[Len(exits)]>>)
                                  \o <<ExitClass(e)>>
              /\ exitBefore' = exitBefore
              /\ lifecycle' = LifecycleAfter(e, lifecycle)
              /\ Dispatch(e)
              /\ pc' = IF thrown' # "none" THEN "thrown"
                       ELSE IF ReturnsAtOnce(e.type) THEN "idle"
                       ELSE "polling"
          /\ last' = IF pc' = "idle" THEN "PollEvents" ELSE last
          /\ UNCHANGED <<m_cloudxr, inputVars, frameVars, trace>>
       \/ /\ thrown' = "xrPollEvent"
          /\ pc' = "thrown"
          /\ UNCHANGED <<m_cloudxr, inputVars, sessionVars, frameVars, trace>>

\* xrPollEvent returns XR_EVENT_UNAVAILABLE: the loop ends, PollEvents returns.
PollEventsReturn ==
    /\ pc = "polling"
    /\ pending = 0
    /\ pc' = "idle"
    /\ last' = "PollEvents"
    /\ UNCHANGED <<m_cloudxr, inputVars, eventVars, frameVars, trace, thrown>>

\* ---------------------------------------------------------- specifications
SwapchainLoop ==
    \/ AcquireSwapchainImage
    \/ WaitSwapchainImage
    \/ RenderView
    \/ ReleaseSwapchainImage

\* View poses, view validity bits and latch outcomes in full.
Next ==
    \/ CreateCloudxrClient
    \/ WaitFrame
    \/ BeginFrame
    \/ LocateViews(ViewInputs, ViewFlagInputs, OneGsIndex)
    \/ LocateHands(OneHandInput)
    \/ SetSenserPoseState(HeadInputs)
    \/ LatchFrame(LatchInputs)
    \/ StampPose
    \/ SwapchainLoop
    \/ ReleaseFrame
    \/ EndFrame

Spec == Init /\ [][Next]_vars

\* Hand aim-pose queries in full.
HandNext ==
    \/ CreateCloudxrClient
    \/ WaitFrame
    \/ BeginFrame
    \/ LocateViews(OneViewInput, OneViewFlagInput, OneGsIndex)
    \/ LocateHands(HandInputs)
    \/ SetSenserPoseState(HeadInputs)
    \/ LatchFrame(FewLatchInputs)
    \/ StampPose
    \/ SwapchainLoop
    \/ ReleaseFrame
    \/ EndFrame

HandSpec == Init /\ [][HandNext]_vars

\* Head queries in full.
HeadNext ==
    \/ CreateCloudxrClient
    \/ WaitFrame
    \/ BeginFrame
    \/ LocateViews(OneViewInput, OneViewFlagInput, OneGsIndex)
    \/ LocateHands(OneHandInput)
    \/ SetSenserPoseState(HeadResults)
    \/ LatchFrame(FewLatchInputs)
    \/ StampPose
    \/ SwapchainLoop
    \/ ReleaseFrame
    \/ EndFrame

HeadSpec == Init /\ [][HeadNext]_vars

\* Fields of view of the local views in full.
ViewNext ==
    \/ CreateCloudxrClient
    \/ WaitFrame
    \/ BeginFrame
    \/ LocateViews(FovViewInputs, OneViewFlagInput, GsIndices)
    \/ LocateHands(OneHandInput)
    \/ SetSenserPoseState(HeadInputs)
    \/ LatchFrame(FewLatchInputs)
    \/ StampPose
    \/ SwapchainLoop
    \/ ReleaseFrame
    \/ EndFrame

ViewSpec == Init /\ [][ViewNext]_vars

\* Controller samples in full.
InputNext ==
    \/ CreateCloudxrClient
    \/ PollActions(ActionStates, OneScalarState)

InputSpec == Init /\ [][InputNext]_vars

\* PollActions over the float and vector actions, the buttons left alone.
ScalarNext ==
    \/ CreateCloudxrClient
    \/ PollActions(OneActionState, ScalarStates)

ScalarSpec == Init /\ [][ScalarNext]_vars

\* Runtime events in full; the handlers are called in any order.
SessionNext ==
    \/ xrQueueEvent
    \/ PollEvents
    \/ ReadEvent(Events)
    \/ PollEventsReturn

SessionSpec == Init /\ [][SessionNext]_vars

\* The host loop that calls the handlers, one iteration per tick: PollEvents,
\* then, unless the loop is to be left, PollActions and RenderFrame while the
\* session is running.  The client is created before the loop is entered.
IsSessionRunningAlways == TRUE

IsSessionRunning == m_sessionRunning

HostCreates == last = "none"

HostPolls ==
    \/ last \in {"none", "RenderFrame"}
    \/ last = "PollEvents" /\ ~exitRenderLoop /\ ~IsSessionRunning

HostSamples == last = "PollEvents" /\ ~exitRenderLoop /\ IsSessionRunning

HostRenders == last = "PollActions"

LoopCreateCloudxrClient == HostCreates /\ CreateCloudxrClient
LoopPollEvents == HostPolls /\ PollEvents
LoopPollActions == HostSamples /\ PollActions(OneActionState, OneScalarState)
LoopWaitFrame == HostRenders /\ WaitFrame

\* The handlers called in the order of the host loop.
LoopNext ==
    \/ LoopCreateCloudxrClient
    \/ xrQueueEvent
    \/ LoopPollEvents
    \/ ReadEvent(OwnEvents)
    \/ PollEventsReturn
    \/ LoopPollActions
    \/ LoopWaitFrame
    \/ BeginFrame
    \/ LocateViews(OneViewInput, OneViewFlagInput, OneGsIndex)
    \/ LocateHands(OneHandInput)
    \/ SetSenserPoseState(HeadInputs)
    \/ LatchFrame(FewLatchInputs)
    \/ StampPose
    \/ SwapchainLoop
    \/ ReleaseFrame
    \/ EndFrame

LoopSpec == Init /\ [][LoopNext]_vars

\* ------------------------------------------------------------------ claims
\* What the trace of the current tick says.
Called(c) == \E k \in DOMAIN trace : trace[k] = c
CalledAt(name) == {k \in DOMAIN trace : trace[k][1] = name}
\* The tick has submitted: xrEndFrame is its last call.
TickDone == Len(trace) > 0 /\ trace[Len(trace)][1] = "xrEndFrame"
LatchedThisTick == Called(Call("LatchFrame", 1))
NotAvailableThisTick == Called(Call("LatchFrame", 0))
\* The pose carried by the pose matrix of the frame latched this tick.
RemotePose ==
    [position |-> cxrGetTranslation(framesLatched.poseMatrix),
     orientation |-> cxrToQuaternion(framesLatched.poseMatrix)]
SubmittedPose(i) == frameEndInfo.views[i + 1].pose

\* C1: in every tick that latched a frame and has submitted, the submitted
\* projection view of both eyes carries the position and orientation of the
\* latched frame's pose matrix, whatever xrLocateViews predicted locally.
C1_RemotePoseWins ==
    (TickDone /\ LatchedThisTick) =>
        /\ frameEndInfo.layerCount = 1
        /\ Len(frameEndInfo.views) = Side_COUNT
        /\ \A i \in Eyes : SubmittedPose(i) = RemotePose

\* C1 happens: a submitted tick that latched a frame whose pose differs from
\* the local prediction of both eyes in position and in orientation.
C1_Witness ==
    /\ TickDone
    /\ LatchedThisTick
    /\ \A i \in Eyes :
        /\ m_views[i].pose.position # RemotePose.position
        /\ m_views[i].pose.orientation # RemotePose.orientation
        /\ SubmittedPose(i) = RemotePose

\* C2: in every tick whose LatchFrame returned not-available and that has
\* submitted, one layer was submitted and each eye's submitted pose is that
\* eye's own locally predicted view pose of this tick.
C2_LocalPoseFallback ==
    (TickDone /\ NotAvailableThisTick) =>
        /\ frameEndInfo.layerCount = 1
        /\ Len(frameEndInfo.views) = Side_COUNT
        /\ \A i \in Eyes : SubmittedPose(i) = m_views[i].pose

\* C2 happens: a submitted tick without a frame whose two eyes were predicted
\* at different poses.
C2_Witness ==
    /\ TickDone
    /\ NotAvailableThisTick
    /\ m_views[0].pose.position # m_views[1].pose.position
    /\ m_views[0].pose.orientation # m_views[1].pose.orientation
    /\ \A i \in Eyes : SubmittedPose(i) = m_views[i].pose

\* C3: ReleaseFrame is called at most once for each frame LatchFrame returned
\* and never in a tick whose LatchFrame returned not-available; after every
\* completed tick the released frames are exactly the latched ones.
C3_ReleaseOncePerLatch ==
    /\ \A j, k \in DOMAIN releaseLog : releaseLog[j] = releaseLog[k] => j = k
    /\ \A k \in DOMAIN releaseLog : releaseLog[k] \in 1 .. cxrLatched
    /\ CalledAt("ReleaseFrame") # {} => LatchedThisTick
    /\ Cardinality(CalledAt("ReleaseFrame")) <= 1
    /\ pc = "idle" => Len(releaseLog) = cxrLatched

\* C3 happens: after two ticks, one that latched and one that did not, one
\* frame has been latched and released.
C3_Witness ==
    /\ pc = "idle"
    /\ endFrames = 2
    /\ cxrLatched = 1
    /\ releaseLog = <<1>>
    /\ NotAvailableThisTick

\* C4: in a tick that latched a frame, ReleaseFrame comes after the RenderView
\* of every eye and before xrEndFrame, and the tick does not submit without it.
C4_ReleaseAfterDrawBeforeEnd ==
    /\ \A r \in CalledAt("ReleaseFrame") :
        /\ \A i \in Eyes : \E d \in CalledAt("RenderView") : trace[d][2] = i /\ d < r
        /\ \A d \in CalledAt("RenderView") : d < r
        /\ \A e \in CalledAt("xrEndFrame") : r < e
    /\ (TickDone /\ LatchedThisTick) => CalledAt("ReleaseFrame") # {}

\* C4 happens: a submitted tick that latched, drew both eyes and released.
C4_Witness ==
    /\ TickDone
    /\ LatchedThisTick
    /\ Cardinality(CalledAt("RenderView")) = Side_COUNT
    /\ CalledAt("ReleaseFrame") # {}

\* C5: at most one latched frame is unreleased at any time, and none is when
\* LatchFrame is about to be called.
C5_AtMostOneHeld ==
    /\ Cardinality(cxrHeld) <= 1
    /\ pc = "latch" => cxrHeld = {}

\* C5 happens: the second latched frame is held, alone.
C5_Witness ==
    /\ cxrLatched = 2
    /\ cxrHeld = {2}

\* C6: a rendered tick whose xrLocateViews reported the position or the
\* orientation bit unset still acquires, draws and releases every eye's image
\* and submits exactly one layer.
C6_SubmitsWithInvalidViews ==
    (TickDone /\ CalledAt("xrLocateViews") # {}
       /\ viewStateFlags # {POSITION_VALID, ORIENTATION_VALID}) =>
        /\ frameEndInfo.layerCount = 1
        /\ trace[Len(trace)] = Call("xrEndFrame", 1)
        /\ \A i \in Eyes :
            /\ Called(Call("xrAcquireSwapchainImage", i))
            /\ Called(Call("RenderView", i))
            /\ Called(Call("xrReleaseSwapchainImage", i))

\* C6 happens: a tick with both validity bits unset has submitted one layer.
C6_Witness ==
    /\ TickDone
    /\ CalledAt("xrLocateViews") # {}
    /\ viewStateFlags = {}
    /\ frameEndInfo.layerCount = 1

\* The render thread is inside a tick and a step of the tick other than a
\* thrown failure can be taken.
TickCanGoOn ==
    ENABLED ((BeginFrame \/ LocateViews(ViewInputs, ViewFlagInputs, OneGsIndex)
                \/ LocateHands(OneHandInput) \/ SetSenserPoseState(HeadInputs)
                \/ LatchFrame(LatchInputs) \/ StampPose \/ SwapchainLoop
                \/ ReleaseFrame \/ EndFrame)
             /\ thrown' = "none")

\* C7: every started tick runs on to exactly one xrEndFrame, whatever the
\* latch outcome: inside a tick in which no runtime call has failed a next
\* step always exists and xrEndFrame has not been called, between ticks as
\* many frames were submitted as ticks started; and as long as no frame was
\* ever latched, ReleaseFrame was never called and every rendered submission
\* carries the local predicted poses.
C7_EveryTickSubmits ==
    /\ pc = "idle" => endFrames = ticks
    /\ pc \notin {"idle", "thrown"} =>
          /\ endFrames = ticks - 1
          /\ CalledAt("xrEndFrame") = {}
          /\ TickCanGoOn
    /\ Cardinality(CalledAt("xrEndFrame")) <= 1
    /\ cxrLatched = 0 =>
        /\ releaseLog = <<>>
        /\ CalledAt("ReleaseFrame") = {}
        /\ (TickDone /\ shouldRender) =>
             /\ frameEndInfo.layerCount = 1
             /\ \A i \in Eyes : SubmittedPose(i) = m_views[i].pose

\* C7 happens: MaxTicks ticks were submitted, the last one rendered, and no
\* frame was ever latched.
C7_Witness ==
    /\ pc = "idle"
    /\ ticks = MaxTicks
    /\ endFrames = MaxTicks
    /\ cxrLatched = 0
    /\ shouldRender
    /\ frameEndInfo.layerCount = 1
    /\ releaseLog = <<>>

\* SetSenserPoseState has been called in the current tick.
SentThisTick == Called(Call("SetSenserPoseState", 0))
InList(p, l) == \E k \in DOMAIN l : l[k] = p
FlagsInvalid(loc) ==
    POSITION_VALID \notin loc.flags \/ ORIENTATION_VALID \notin loc.flags
\* Hand h was located validly in the previous rendered tick and its query of
\* this tick misses a validity bit.
LostThisTick(h) ==
    /\ SentThisTick
    /\ prevAim[h] # "unset"
    /\ FlagsInvalid(handLoc[h])

C8_BitOnPressEdgeOnly ==
    [][\A h \in Hands, b \in MappedButtons :
         (cxrTracking.received /\ sample[h][b] = PressedNow /\ sample'[h][b] = HeldDown) =>
            /\ ButtonBit(b) \in cxrTracking.state[h].booleanComps
            /\ ButtonBit(b) \notin cxrTracking'.state[h].booleanComps]_vars

\* C8 happens: a button pressed in the poll before is held in the last poll,
\* and its bit is clear in the snapshot just forwarded.
C8_Witness ==
    /\ heldAfterPress # {}
    /\ cxrTracking.received
    /\ \A c \in heldAfterPress :
        /\ sample[c[1]][c[2]] = HeldDown
        /\ ButtonBit(c[2]) \notin cxrTracking.state[c[1]].booleanComps

\* C10: PollActions returns true exactly when the back action of some hand was
\* read active, changed and released; a press edge or an unchanged level does
\* not make it return true.
C10_RetOnBackRelease ==
    ret = (\E h \in Hands : sample[h]["backAction"] = ReleasedNow)

\* C10 happens: the last PollActions read a back release and returned true.
C10_Witness ==
    /\ ret
    /\ \E h \in Hands : sample[h]["backAction"] = ReleasedNow

\* ------------------------------------------------------- claims on PollEvents
\* This step is a turn of the event loop: an event was taken off the queue.
Reads == pending' = pending - 1
IsStateChanged(e) == e.type = "XR_TYPE_EVENT_DATA_SESSION_STATE_CHANGED"
\* e is a session-state-changed event that passes the session test.
ForOwnedSession(e, st) == IsStateChanged(e) /\ ~UnknownSession(e) /\ e.state = st

\* C11 as claimed: handling a session-state-changed event whose session handle
\* is non-null and not the owned session leaves SessionState, the running flag
\* and both output flags as they were and makes no session call.
C11_UnknownSessionIgnored ==
    [][(Reads /\ IsStateChanged(event') /\ UnknownSession(event')) =>
          /\ m_sessionState' = m_sessionState
          /\ m_sessionRunning' = m_sessionRunning
          /\ exitRenderLoop' = exitRenderLoop
          /\ requestRestart' = requestRestart
          /\ called' = "none"]_vars

\* C13: after an Exiting event for the owned session was handled, SessionState
\* is Exiting, exitRenderLoop is true and requestRestart is false, whatever
\* they were before.
C13_ExitingStopsWithoutRestart ==
    [][(Reads /\ ForOwnedSession(event', "XR_SESSION_STATE_EXITING")) =>
          /\ m_sessionState' = "XR_SESSION_STATE_EXITING"
          /\ exitRenderLoop'
          /\ ~requestRestart']_vars

\* C13 happens: an Exiting event was handled while the session was running:
\* the loop is to be left and no restart is asked for.
C13_Witness ==
    /\ ForOwnedSession(event, "XR_SESSION_STATE_EXITING")
    /\ m_sessionState = "XR_SESSION_STATE_EXITING"
    /\ m_sessionRunning
    /\ exitRenderLoop
    /\ ~requestRestart

\* C14: after a LossPending event for the owned session was handled,
\* SessionState is LossPending and exitRenderLoop and requestRestart are both
\* true, whatever they were before.
C14_LossPendingRestarts ==
    [][(Reads /\ ForOwnedSession(event', "XR_SESSION_STATE_LOSS_PENDING")) =>
          /\ m_sessionState' = "XR_SESSION_STATE_LOSS_PENDING"
          /\ exitRenderLoop'
          /\ requestRestart']_vars

\* C14 happens: a LossPending event was handled while the session was running.
C14_Witness ==
    /\ ForOwnedSession(event, "XR_SESSION_STATE_LOSS_PENDING")
    /\ m_sessionState = "XR_SESSION_STATE_LOSS_PENDING"
    /\ m_sessionRunning
    /\ exitRenderLoop
    /\ requestRestart

\* C15: on an instance-loss-pending event PollEvents returns with
\* exitRenderLoop and requestRestart both true, and SessionState and the
\* running flag are what they were before the event.
C15_InstanceLossKeepsState ==
    [][(Reads /\ event' = InstanceLossPending) =>
          /\ pc' = "idle"
          /\ exitRenderLoop'
          /\ requestRestart'
          /\ m_sessionState' = m_sessionState
          /\ m_sessionRunning' = m_sessionRunning]_vars

\* C15 happens: PollEvents has returned on an instance loss while the session
\* was running in state Focused.
C15_Witness ==
    /\ pc = "idle"
    /\ event = InstanceLossPending
    /\ exitRenderLoop
    /\ requestRestart
    /\ m_sessionRunning
    /\ m_sessionState = "XR_SESSION_STATE_FOCUSED"

\* C16: the running flag is false at first and becomes true only by handling
\* a Ready event for the owned session; handling one calls xrBeginSession and,
\* the call succeeding, sets the running flag.
C16_ReadyBeginsSession ==
    /\ ~m_sessionRunning
    /\ [][/\ (~m_sessionRunning /\ m_sessionRunning') =>
                (Reads /\ ForOwnedSession(event', "XR_SESSION_STATE_READY"))
          /\ (Reads /\ ForOwnedSession(event', "XR_SESSION_STATE_READY")
                /\ thrown' = "none") =>
                (called' = "xrBeginSession" /\ m_sessionRunning')]_vars

\* C16 happens: a Ready event was handled, the session was begun and runs.
C16_Witness ==
    /\ ForOwnedSession(event, "XR_SESSION_STATE_READY")
    /\ called = "xrBeginSession"
    /\ m_sessionRunning
    /\ m_sessionState = "XR_SESSION_STATE_READY"

\* C17: handling a Stopping event for the owned session while the session is
\* running clears the running flag and calls xrEndSession; once cleared, the
\* flag stays false in every step that does not handle a Ready event.
C17_StoppingEndsSession ==
    [][/\ (Reads /\ ForOwnedSession(event', "XR_SESSION_STATE_STOPPING")
             /\ m_sessionRunning) =>
             (~m_sessionRunning' /\ (thrown' = "none" => called' = "xrEndSession"))
       /\ (~m_sessionRunning
             /\ ~(Reads /\ ForOwnedSession(event', "XR_SESSION_STATE_READY"))) =>
             ~m_sessionRunning']_vars

\* C17 happens: a Stopping event was handled, the session was ended and does
\* not run.
C17_Witness ==
    /\ ForOwnedSession(event, "XR_SESSION_STATE_STOPPING")
    /\ called = "xrEndSession"
    /\ ~m_sessionRunning
    /\ m_sessionState = "XR_SESSION_STATE_STOPPING"

\* Event types the switch does nothing for but log.
Unhandled == DefaultTypes \cup {"XR_TYPE_EVENT_CONTROLLER_STATE_CHANGED"}

\* C18: an event of a type the switch has no case for (reference space change
\* pending among them), or only logs, changes neither SessionState, the
\* running flag nor an output flag, throws nothing, and leaves PollEvents in
\* its loop, about to read the next event.
C18_UnhandledEventsIgnored ==
    [][(Reads /\ event'.type \in Unhandled) =>
          /\ m_sessionState' = m_sessionState
          /\ m_sessionRunning' = m_sessionRunning
          /\ exitRenderLoop' = exitRenderLoop
          /\ requestRestart' = requestRestart
          /\ called' = "none"
          /\ thrown' = "none"
          /\ pc' = "polling"]_vars

\* C18 happens: a reference space change event was read with another event
\* behind it, and PollEvents is still in its loop with the session as before.
C18_Witness ==
    /\ event.type = "XR_TYPE_EVENT_DATA_REFERENCE_SPACE_CHANGE_PENDING"
    /\ pc = "polling"
    /\ pending > 0
    /\ m_sessionRunning
    /\ ~exitRenderLoop

Renderable ==
    {"XR_SESSION_STATE_SYNCHRONIZED", "XR_SESSION_STATE_VISIBLE", "XR_SESSION_STATE_FOCUSED"}
\* This step is the xrEndFrame of a tick.
Submits == endFrames' = endFrames + 1

\* C12 as claimed: whenever a frame is submitted by a loop that renders exactly
\* while the session is running, SessionState is Synchronized, Visible or
\* Focused.
C12_SubmitsOnlyWhenSynchronized ==
    [][Submits => m_sessionState \in Renderable]_vars

\* C12 as amended: whenever a frame is submitted by a loop that renders exactly
\* while the session is running, the running flag is true and the last poll
\* did not ask to leave the loop; SessionState is not confined by this.
C12_SubmitsOnlyWhenRunning ==
    [][Submits => (m_sessionRunning /\ ~exitRenderLoop)]_vars

\* C12 happens: a frame was submitted while SessionState was Ready, the
\* session having been begun by the Ready event of the last poll.
C12_Witness ==
    /\ TickDone
    /\ last = "RenderFrame"
    /\ m_sessionRunning
    /\ m_sessionState = "XR_SESSION_STATE_READY"
    /\ ForOwnedSession(event, "XR_SESSION_STATE_READY")

\* The render thread is inside RenderFrame.
InRenderFrame == pc \notin {"idle", "polling", "thrown"}

\* C20: inside a tick, when LatchFrame has been called the tracking snapshot
\* of this tick was forwarded before it, every stamping of an eye's pose on its
\* projection view comes after LatchFrame, and xrEndFrame comes after all of
\* them.
C20_ForwardLatchStampSubmit ==
    /\ (InRenderFrame /\ CalledAt("LatchFrame") # {}) =>
          /\ cxrTracking.received
          /\ cxrTracking.tick = ticks - 1
          /\ cxrTracking.state = trackingState
    /\ \A l \in CalledAt("LatchFrame") :
          /\ \A d \in CalledAt("RenderView") : l < d
          /\ \A e \in CalledAt("xrEndFrame") : l < e
    /\ \A d \in CalledAt("RenderView") : \A e \in CalledAt("xrEndFrame") : d < e
    /\ (TickDone /\ shouldRender) =>
          /\ CalledAt("LatchFrame") # {}
          /\ Cardinality(CalledAt("RenderView")) = Side_COUNT

\* C20 happens: the second tick has forwarded its snapshot, latched a frame,
\* stamped both eyes and submitted.
C20_Witness ==
    /\ TickDone
    /\ ticks = 2
    /\ cxrTracking.received
    /\ cxrTracking.tick = 1
    /\ LatchedThisTick
    /\ Cardinality(CalledAt("RenderView")) = Side_COUNT

\* A step of PollActions that returns.
Samples ==
    /\ last' = "PollActions"
    /\ thrown' = "none"
    /\ UNCHANGED <<m_cloudxr, pc, eventVars>>
\* The last PollActions read the action of scalar k of hand h active.
ScalarActive(h, k) == scalarSample[h][ScalarSource(k)].isActive
\* The value the last PollActions read for scalar k of hand h.
ScalarRead(h, k) ==
    CASE k = "cxrAnalog_JoystickX" -> scalarSample[h]["joystickAction"].currentState.x
      [] k = "cxrAnalog_JoystickY" -> scalarSample[h]["joystickAction"].currentState.y
      [] OTHER -> scalarSample[h][ScalarSource(k)].currentState
\* Scalar k of hand h in the snapshot the client received last.
ForwardedScalar(h, k) == cxrTracking.state[h].scalarComps[k]

\* C21 as claimed: when a scalar control was read active by one PollActions
\* and is read inactive by the next, the snapshot forwarded by the second
\* carries for it the value of the snapshot forwarded by the first.
C21_InactiveKeepsPrior ==
    [][(Samples /\ forwarded = 1 /\ forwarded' = 1) =>
          \A h \in Hands, k \in Scalars :
             (ScalarActive(h, k) /\ ~ScalarActive(h, k)') =>
                ForwardedScalar(h, k)' = ForwardedScalar(h, k)]_vars

\* C21 as amended: a scalar control that a PollActions reads inactive is zero
\* in the snapshot that call forwards, whatever the snapshot before carried.
C21_InactiveIsZero ==
    forwarded = 1 =>
        \A h \in Hands, k \in Scalars : ~ScalarActive(h, k) => ForwardedScalar(h, k) = 0

\* C21 happens: the left trigger was not zero in the snapshot before, is read
\* inactive now, and is zero in the snapshot forwarded now.
C21_Witness ==
    /\ forwarded = 1
    /\ <<Side_LEFT, "cxrAnalog_Trigger">> \in lapsed
    /\ ~ScalarActive(Side_LEFT, "cxrAnalog_Trigger")
    /\ ForwardedScalar(Side_LEFT, "cxrAnalog_Trigger") = 0

\* C22 as claimed: the head pose passed to SetSenserPoseState is never an
\* invalid sample: when the head query of the tick misses a validity bit, the
\* pose passed is the last one located with both bits, or the identity.
C22_HeadPoseNeverInvalid ==
    (SentThisTick /\ ~HeadValid(headLoc)) =>
        cxrSensed.head \in ({goodHead} \ {"unset"}) \cup {"identity"}

\* The hand-pose list passed to SetSenserPoseState holds the aim poses of the
\* hands in tracked and of no other hand, the left hand's first.
ListHolds(tracked) ==
    /\ Len(cxrSensed.hands) = Cardinality(tracked)
    /\ \A h \in tracked : InList(handLoc[h].pose, cxrSensed.hands)
    /\ \A h \in Hands \ tracked : \A p \in AimPoses(h) : ~InList(p, cxrSensed.hands)
    /\ tracked = Hands =>
          cxrSensed.hands = <<handLoc[Side_LEFT].pose, handLoc[Side_RIGHT].pose>>

\* C23 as claimed: the hand-pose list passed to SetSenserPoseState holds
\* exactly the hands whose aim query of this tick returned both validity
\* bits, left before right, and no entry for any other hand.
C23_ListIsHandsWithBothBits ==
    SentThisTick => ListHolds({h \in Hands : ~FlagsInvalid(handLoc[h])})

\* C23 as amended: the hand-pose list passed to SetSenserPoseState holds
\* exactly the hands whose aim query of this tick returned XR_SUCCESS with
\* both validity bits, left before right, and no entry for any other hand.
C23_ListIsHandsLocated ==
    SentThisTick =>
        ListHolds({h \in Hands : handLoc[h].res = "XR_SUCCESS" /\ ~FlagsInvalid(handLoc[h])})

\* C23 happens: both hands were located with both bits, and the list holds
\* the left pose, then the right pose.
C23_Witness ==
    /\ SentThisTick
    /\ \A h \in Hands : handLoc[h].res = "XR_SUCCESS" /\ ~FlagsInvalid(handLoc[h])
    /\ Len(cxrSensed.hands) = Side_COUNT
    /\ cxrSensed.hands[1] \in AimPoses(Side_LEFT)
    /\ cxrSensed.hands[Side_COUNT] \in AimPoses(Side_RIGHT)

\* C24 as claimed: a PollActions applies the haptic vibration to a hand exactly
\* when the grip value it reads for that hand, the one it copies into the
\* grip scalar of the snapshot, is active and above the 0.9 threshold.
C24_HapticFollowsGrip ==
    \A h \in Hands :
        h \in haptics <=>
            (ScalarActive(h, "cxrAnalog_Grip")
             /\ ScalarRead(h, "cxrAnalog_Grip") > HapticThreshold)

\* Call c of the current tick waits for an external party without a bound:
\* the display-interval wait, and a swapchain image wait whose timeout is
\* infinite.
WaitsUnbounded(c) ==
    \/ c[1] = "xrWaitFrame"
    \/ c[1] = "xrWaitSwapchainImage" /\ waitInfo.timeout = "XR_INFINITE_DURATION"

\* C25 as claimed: xrWaitFrame is the only step of a tick at which the render
\* thread can wait without a bound; no other call of the tick can.
C25_OnlyWaitFrameBlocks ==
    \A k \in DOMAIN trace : WaitsUnbounded(trace[k]) => trace[k][1] = "xrWaitFrame"

\* The textures of the frames passed to ReleaseFrame so far.
ReleasedTextures ==
    {Texture(releaseLog[k], i) : k \in DOMAIN releaseLog, i \in Eyes}

\* C26: the texture handed to RenderView is never one of a frame that has been
\* passed to ReleaseFrame, and in a tick whose LatchFrame returned no frame it
\* is the zero handle of the zero-initialised frame record.
C26_NoTextureAfterRelease ==
    pc = "release" =>
        /\ drawn[eye] \notin ReleasedTextures
        /\ NotAvailableThisTick => drawn[eye] = ZeroFrame.frames[eye]

\* C26 happens: a frame was latched, drawn and released in an earlier tick,
\* LatchFrame returned no frame in this one, and RenderView has just been
\* handed the zero handle.
C26_Witness ==
    /\ pc = "release"
    /\ NotAvailableThisTick
    /\ releaseLog # <<>>
    /\ drawn[eye] = 0

\* C27: in a tick whose xrWaitFrame reported shouldRender false the only
\* calls are xrWaitFrame, xrBeginFrame and xrEndFrame: no pose is located, no
\* SetSenserPoseState, LatchFrame, swapchain call or ReleaseFrame is made; and
\* once the tick has returned, the frame was begun and ended with zero layers.
C27_SkippedTickSubmitsEmpty ==
    (ticks > 0 /\ ~shouldRender) =>
        /\ \A k \in DOMAIN trace :
               trace[k][1] \in {"xrWaitFrame", "xrBeginFrame", "xrEndFrame"}
        /\ pc = "idle" =>
               /\ trace = <<Call("xrWaitFrame", 0), Call("xrBeginFrame", 0),
                            Call("xrEndFrame", 0)>>
               /\ frameEndInfo.layerCount = 0

\* C27 happens: after a tick that latched and released a frame, a tick with
\* shouldRender false has submitted a frame without layers.
C27_Witness ==
    /\ ~shouldRender
    /\ TickDone
    /\ ticks > 1
    /\ releaseLog # <<>>
    /\ frameEndInfo.layerCount = 0

\* Positions in the trace of the current tick of call name for eye i.
At(name, i) == {k \in DOMAIN trace : trace[k] = Call(name, i)}
\* Every call of a for eye i has a call of b for eye j before it.
Follows(a, i, b, j) == \A k \in At(a, i) : \E l \in At(b, j) : l < k

\* C28: in every tick each eye's swapchain calls come in the order acquire,
\* wait, draw, release, each at most once; the image of eye i is released
\* before the image of eye i + 1 is acquired; and at xrEndFrame every image
\* acquired in the tick has been released.
C28_AcquireWaitDrawRelease ==
    /\ \A i \in Eyes :
          /\ \A name \in {"xrAcquireSwapchainImage", "xrWaitSwapchainImage",
                          "RenderView", "xrReleaseSwapchainImage"} :
                Cardinality(At(name, i)) <= 1
          /\ Follows("xrWaitSwapchainImage", i, "xrAcquireSwapchainImage", i)
          /\ Follows("RenderView", i, "xrWaitSwapchainImage", i)
          /\ Follows("xrReleaseSwapchainImage", i, "RenderView", i)
          /\ i > 0 => Follows("xrAcquireSwapchainImage", i, "xrReleaseSwapchainImage", i - 1)
    /\ \A e \in CalledAt("xrEndFrame") : \A i \in Eyes :
          \A a \in At("xrAcquireSwapchainImage", i) :
             \E r \in At("xrReleaseSwapchainImage", i) : a < r /\ r < e

\* C28 happens: a submitted tick acquired and released the image of every eye.
C28_Witness ==
    /\ TickDone
    /\ \A i \in Eyes :
          /\ At("xrAcquireSwapchainImage", i) # {}
          /\ At("xrReleaseSwapchainImage", i) # {}

\* C29: a PollActions that finds the remote client makes exactly one
\* SetTrackingState call, and the snapshot it passes carries, for each hand
\* and each scalar whose action the call read active, the value the call read.
C29_ForwardsSampledScalars ==
    [][(Samples /\ m_cloudxr) =>
          /\ forwarded' = 1
          /\ cxrTracking'.received
          /\ \A h \in Hands, k \in Scalars :
                ScalarActive(h, k)' => ForwardedScalar(h, k)' = ScalarRead(h, k)']_vars

\* C29 happens: the left joystick was read active at two different values,
\* and the forwarded snapshot carries them as joystick X and joystick Y.
C29_Witness ==
    /\ forwarded = 1
    /\ scalarSample[Side_LEFT]["joystickAction"] = ActionStateVector2f(TRUE, 90, 95)
    /\ ForwardedScalar(Side_LEFT, "cxrAnalog_JoystickX") = 90
    /\ ForwardedScalar(Side_LEFT, "cxrAnalog_JoystickY") = 95

\* The runtime calls of a tick.
FrameCalls ==
    {"xrWaitFrame", "xrBeginFrame", "xrLocateViews", "xrLocateSpace",
     "xrAcquireSwapchainImage", "xrWaitSwapchainImage", "xrReleaseSwapchainImage",
     "xrEndFrame"}

\* C30: the failure of a runtime call of a tick ends the tick there: the
\* failing call adds no call and no submission, and no step is taken after it,
\* so no frame is submitted after the failing call.
C30_FailureEndsTick ==
    [][/\ thrown = "none"
       /\ thrown' \in FrameCalls =>
             /\ pc' = "thrown"
             /\ UNCHANGED <<trace, endFrames, frameEndInfo>>]_vars

\* C30 happens: xrWaitSwapchainImage failed for the second eye of the second
\* tick; the first eye was drawn and released, and the tick has not submitted.
C30_Witness ==
    /\ thrown = "xrWaitSwapchainImage"
    /\ pc = "thrown"
    /\ ticks = 2
    /\ eye = 1
    /\ At("xrReleaseSwapchainImage", 0) # {}
    /\ ~TickDone
    /\ endFrames = 1

\* PollEvents has returned and no handler has run since.
PollReturned == pc = "idle" /\ last = "PollEvents"

\* C31: whenever PollEvents has returned, requestRestart implies
\* exitRenderLoop, whatever events were queued.
C31_RestartImpliesExit ==
    PollReturned => (requestRestart => exitRenderLoop)

\* C31 happens: PollEvents has returned after a LossPending event for the
\* owned session, with both flags set.
C31_Witness ==
    /\ PollReturned
    /\ ForOwnedSession(event, "XR_SESSION_STATE_LOSS_PENDING")
    /\ requestRestart
    /\ exitRenderLoop

\* The current or last PollEvents has handled no exiting, loss-pending or
\* instance-loss event.
NoExitHandled == exits = <<>>

\* C32: the output flags do not outlast a poll: from its entry on, and when it
\* has returned, a PollEvents that has handled no exiting, loss-pending or
\* instance-loss event has both flags false, whatever the poll before left.
C32_FlagsNotSticky ==
    ((pc = "polling" \/ PollReturned) /\ NoExitHandled) =>
        (~exitRenderLoop /\ ~requestRestart)

\* C32 happens: the poll before returned exitRenderLoop true, this one has
\* handled an event that is none of the three, and has returned both false.
C32_Witness ==
    /\ PollReturned
    /\ exitBefore
    /\ NoExitHandled
    /\ event # NoEvent
    /\ ~exitRenderLoop
    /\ ~requestRestart

\* C33: inside one PollEvents exitRenderLoop, once true, stays true; and when
\* the call returns after handling an exiting, loss-pending or instance-loss
\* event, requestRestart is what the last of them sets: false for exiting,
\* true for loss-pending and instance-loss.
C33_LastExitEventDecides ==
    [][/\ (pc = "polling" /\ exitRenderLoop) => exitRenderLoop'
       /\ (pc' = "idle" /\ last' = "PollEvents" /\ exits' # <<>>) =>
             /\ exitRenderLoop'
             /\ requestRestart' = (exits'[Len(exits')] # "exiting")]_vars

\* C33 happens: one PollEvents handled an Exiting event and then a
\* LossPending event, and has returned requestRestart true.
C33_Witness ==
    /\ PollReturned
    /\ exits = <<"exiting", "loss-pending">>
    /\ exitRenderLoop
    /\ requestRestart

\* xrBeginSession, xrEndSession is called in this step, whether it succeeds or
\* fails.
Begins == Reads /\ (called' = "xrBeginSession" \/ thrown' = "xrBeginSession")
Ends == Reads /\ (called' = "xrEndSession" \/ thrown' = "xrEndSession")

\* C34 as claimed: over any sequence of session-state events xrBeginSession
\* is called only for a session whose running flag is false and xrEndSession
\* only for one whose running flag is true as the event is handled.
C34_BeginEndAlternate ==
    [][/\ Begins => ~m_sessionRunning
       /\ Ends => m_sessionRunning]_vars

\* The Ready or Stopping event for the owned session handled last.
LastLifecycle == IF lifecycle = <<>> THEN "none" ELSE lifecycle[Len(lifecycle)]

\* C34: while the Ready and Stopping events for the owned session alternate
\* starting with Ready, xrBeginSession is called only for a session whose
\* running flag is false and xrEndSession only for one whose running flag is
\* true as the event is handled.
C34_AlternateWhenEventsDo ==
    [][/\ (Begins /\ LastLifecycle # "ready") => ~m_sessionRunning
       /\ (Ends /\ LastLifecycle = "ready") => m_sessionRunning]_vars

\* C34 happens: a Stopping event was handled after a Ready event, and the
\* session that was begun has been ended.
C34_Witness ==
    /\ lifecycle = <<"ready", "stopping">>
    /\ ForOwnedSession(event, "XR_SESSION_STATE_STOPPING")
    /\ called = "xrEndSession"
    /\ ~m_sessionRunning

\* The swapchain calls of the view loop.
SwapchainCalls ==
    {"xrAcquireSwapchainImage", "xrWaitSwapchainImage", "xrReleaseSwapchainImage"}

\* C35: when a swapchain acquire, wait or release call has failed in a tick
\* whose LatchFrame returned a frame, the tick has ended without xrEndFrame
\* and without ReleaseFrame: the latched frame is still held by the client.
C35_FailedSwapchainKeepsFrame ==
    (thrown \in SwapchainCalls /\ framevaild) =>
        /\ pc = "thrown"
        /\ LatchedThisTick
        /\ framesLatched.poseID \in cxrHeld
        /\ \A k \in DOMAIN releaseLog : releaseLog[k] # framesLatched.poseID
        /\ CalledAt("ReleaseFrame") = {}
        /\ CalledAt("xrEndFrame") = {}

\* C35 happens: the release of the second eye's swapchain image failed in a
\* tick that had latched a frame and drawn both eyes.
C35_Witness ==
    /\ thrown = "xrReleaseSwapchainImage"
    /\ framevaild
    /\ LatchedThisTick
    /\ eye = Side_RIGHT
    /\ Cardinality(CalledAt("RenderView")) = Side_COUNT
    /\ framesLatched.poseID \in cxrHeld

\* RenderLayer is at, or in this tick is past, a call through m_cloudxr.
UsesClient ==
    \/ pc \in {"head", "latch"}
    \/ Called(Call("SetSenserPoseState", 0))
    \/ CalledAt("LatchFrame") # {}

Submitted(i) == frameEndInfo.views[i + 1]

\* C37: in every tick that has submitted a layer, latched frame or not, the
\* projection view of each eye carries the fov xrLocateViews gave for that
\* eye, and its sub-image is the eye's own swapchain from offset (0, 0) over
\* the swapchain's whole width and height.
C37_FovAndSubImageAreLocal ==
    (TickDone /\ frameEndInfo.layerCount > 0) =>
        \A i \in Eyes :
            /\ Submitted(i).fov = m_views[i].fov
            /\ Submitted(i).subImage.swapchain = m_swapchains[i].handle
            /\ Submitted(i).subImage.imageRect.offset = <<0, 0>>
            /\ Submitted(i).subImage.imageRect.extent =
                  <<m_swapchains[i].width, m_swapchains[i].height>>

\* C37 happens: a tick latched a frame, its pose replaced the local one, and
\* the submitted views carry the two eyes' different local fovs and
\* swapchains.
C37_Witness ==
    /\ TickDone
    /\ LatchedThisTick
    /\ frameEndInfo.layerCount > 0
    /\ m_views[Side_LEFT].fov # m_views[Side_RIGHT].fov
    /\ \A i \in Eyes :
          /\ Submitted(i).pose # m_views[i].pose
          /\ Submitted(i).fov = m_views[i].fov
          /\ Submitted(i).subImage.swapchain = m_swapchains[i].handle

\* xrLocateViews has returned in this tick, and the index it returned.
LocatedThisTick == CalledAt("xrLocateViews") # {}
LocatedGsIndex == trace[CHOOSE k \in CalledAt("xrLocateViews") : TRUE][2]

\* C38: the index attached to xrEndFrame is 0 before the first tick; a tick
\* that rendered attaches the index its xrLocateViews returned; a tick that did
\* not render attaches the index of the submission before it, which is that
\* of the most recent rendered tick, or 0 if there was none.
C38_GsIndexOfLastRenderedTick ==
    /\ frameEndInfo.gsIndex = 0
    /\ [][Submits =>
            frameEndInfo'.gsIndex = IF LocatedThisTick THEN LocatedGsIndex
                                    ELSE frameEndInfo.gsIndex]_vars

\* C38 happens: the second tick did not render and was submitted with the
\* index the first tick's xrLocateViews returned.
C38_Witness ==
    /\ TickDone
    /\ ticks = 2
    /\ ~shouldRender
    /\ ~LocatedThisTick
    /\ mGsIndex = 2
    /\ frameEndInfo.gsIndex = 2

====
